---- MODULE Spec2Model ----
(***************************************************************************)
(* AdaWriter: the text-editing engine of src/ada_writer.py (class          *)
(* TextEditor and the indicator helpers of class AdaWriter).               *)
(*                                                                         *)
(* A text (a logical line, a display line) is a sequence of one-character  *)
(* strings.  Line and column indices are 0-based as in the Python source;  *)
(* a TLA+ sequence is indexed from 1, hence the "+ 1" in element access.   *)
(* Times are in milliseconds (pygame.time.get_ticks and time.time are      *)
(* both read from the one clock `now`).                                    *)
(***************************************************************************)
EXTENDS Integers, Sequences, FiniteSets, TLC

VARIABLES
    \* editor_state of TextEditor._main_loop
    lines, cursor_x, cursor_y, scroll_offset, cursor_visible,
    layout_changed, content_changed, timers_changed,
    \* locals of TextEditor._main_loop
    display_lines, source_line_map, cursor_display_pos,
    content_changed_since_last_save,
    \* fields of TextEditor and Keyboard
    shift_pressed, last_activity_time, last_blink_time, cursor_blink_on,
    partial_refresh_count,
    \* status indicators of AdaWriter
    word_count_active, word_count_timer, current_word_count_text,
    time_display_active, time_display_timer, current_time_text,
    save_indicator_active, save_indicator_timer,
    \* environment: the file of the session, the clock, the rows of the panel
    file, is_journal, now, max_lines_on_screen,
    \* control: position of the editor in run/_main_loop, events read so far
    \* in the current poll batch
    pc, batch_n,
    \* observation of the last step: the key event it handled, the display
    \* commit it issued, the most recent hotkey, the scenario counter
    last_event, commit, last_hotkey, scenario_bs,
    \* output of the last step: the file write it attempted, the regions it
    \* drew and the indicator text it drew in the header
    write, drawn, indicator_text,
    \* the monthly journal file, and the outcome of the aggregation the last
    \* step ran
    monthly, aggregation,
    \* the web server thread: its position in edit_file, the content of the
    \* request it serves, and who completed the last write of the file
    web_pc, web_content, last_writer,
    \* the editor of ada_writer_v1.4.3.py: the time of its last autosave
    last_save_time,
    \* AdaWriter: the screen the application is on (pc), the flag set by
    \* handle_shutdown_signal, whether time.time() - last_activity exceeds
    \* INACTIVITY_TIMEOUT_SECONDS (idle), is_first_loop of run and
    \* selected_index of show_projects_list
    shell,
    \* DisplayManager on real hardware: _current_mode and _is_sleeping, the
    \* state the calls of epd have left the panel in (epd_mode) and the
    \* buffers transferred, each with the panel state it was transferred in
    panel,
    \* the files below BASE_DIR that the web server can reach, by directory
    fs,
    \* the answer to the last request of the web server, and the files the
    \* request has read, written, moved or removed
    http

vars == << lines, cursor_x, cursor_y, scroll_offset, cursor_visible,
           layout_changed, content_changed, timers_changed,
           display_lines, source_line_map, cursor_display_pos,
           content_changed_since_last_save,
           shift_pressed, last_activity_time, last_blink_time, cursor_blink_on,
           partial_refresh_count,
           word_count_active, word_count_timer, current_word_count_text,
           time_display_active, time_display_timer, current_time_text,
           save_indicator_active, save_indicator_timer,
           file, is_journal, now, max_lines_on_screen, pc, batch_n,
           last_event, commit, last_hotkey, scenario_bs,
           write, drawn, indicator_text,
           monthly, aggregation, web_pc, web_content, last_writer,
           last_save_time, shell, panel, fs, http >>

-----------------------------------------------------------------------------
(* Bounds of the model *)

\* number of characters that fit the text area of the panel
MaxWidthChars == 3
\* longest logical line and largest number of lines of an enumerated document
MaxLineLen == 4
MaxDocLines == 2

(* Program constants *)
TEXT_MARGIN == 10
\* display width in pixels; one character is one pixel wide in the model
width == MaxWidthChars + 2 * TEXT_MARGIN

-----------------------------------------------------------------------------
(* Text helpers (Python str operations used by the editor) *)

Max(a, b) == IF a > b THEN a ELSE b
Min(a, b) == IF a < b THEN a ELSE b

\* a[:k] and a[k:]
Prefix(s, k) == SubSeq(s, 1, Min(k, Len(s)))
Suffix(s, k) == SubSeq(s, Min(k, Len(s)) + 1, Len(s))

RECURSIVE split(_, _)
\* line.split(' '): the words of `line` that follow the partly read word `cur`
split(line, cur) ==
    IF line = <<>> THEN << cur >>
    ELSE IF Head(line) = " " THEN << cur >> \o split(Tail(line), <<>>)
    ELSE split(Tail(line), Append(cur, Head(line)))

RECURSIVE rstrip(_)
\* str.rstrip(): the text without its trailing blanks
rstrip(s) ==
    IF s = <<>> THEN s
    ELSE IF s[Len(s)] = " " THEN rstrip(SubSeq(s, 1, Len(s) - 1))
    ELSE s

\* font.getbbox(text)[2]: the pixel width of a text
getbbox2(text) == Len(text)

max_width == width - (2 * TEXT_MARGIN)

-----------------------------------------------------------------------------
(* Line wrapper: TextEditor._get_wrapped_lines *)

RECURSIVE WrapWordsAt_WrapWhenFull(_, _, _, _)
\* WrapWordsAt that also wraps a word that exactly fills the line
WrapWordsAt_WrapWhenFull(mw, words, cur, out) ==
    IF words = <<>> THEN Append(out, rstrip(cur))
    ELSE LET word == Head(words)
             word_with_space == Append(word, " ")
         IN  IF getbbox2(cur \o word) >= mw
             THEN WrapWordsAt_WrapWhenFull(mw, Tail(words), word_with_space,
                                           Append(out, rstrip(cur)))
             ELSE WrapWordsAt_WrapWhenFull(mw, Tail(words), cur \o word_with_space, out)

RECURSIVE WrapWordsAt(_, _, _, _)
\* the loop over the words of one logical line, for a text area mw wide:
\* cur is current_line_text, out the display lines appended so far for
\* this line
WrapWordsAt(mw, words, cur, out) ==
    IF words = <<>> THEN Append(out, rstrip(cur))
    ELSE LET word == Head(words)
             word_with_space == Append(word, " ")
         IN  IF getbbox2(cur \o word) > mw
             THEN WrapWordsAt(mw, Tail(words), word_with_space, Append(out, rstrip(cur)))
             ELSE WrapWordsAt(mw, Tail(words), cur \o word_with_space, out)

\* WrapLineAt that appends nothing for an empty logical line
WrapLineAt_SkipEmpty(mw, line) ==
    IF line = <<>> THEN <<>>
    ELSE WrapWordsAt(mw, split(line, <<>>), <<>>, <<>>)

\* the display lines of one logical line
WrapLineAt(mw, line) ==
    IF line = <<>> THEN << <<>> >>
    ELSE WrapWordsAt(mw, split(line, <<>>), <<>>, <<>>)

RECURSIVE WrapFromAt(_, _, _)
\* the loop over the logical lines, from index i (0-based) on
WrapFromAt(mw, source_lines, i) ==
    IF i >= Len(source_lines) THEN [dl |-> <<>>, map |-> <<>>]
    ELSE LET seg  == WrapLineAt(mw, source_lines[i + 1])
             rest == WrapFromAt(mw, source_lines, i + 1)
         IN  [dl  |-> seg \o rest.dl,
              map |-> [k \in 1..Len(seg) |-> i] \o rest.map]

\* the wrapper on a display whose text area is max_width wide
WrapWords(words, cur, out) == WrapWordsAt(max_width, words, cur, out)
WrapLine(line) == WrapLineAt(max_width, line)
WrapFrom(source_lines, i) == WrapFromAt(max_width, source_lines, i)

_get_wrapped_lines(source_lines) == WrapFrom(source_lines, 0)

-----------------------------------------------------------------------------
(* Coordinate mapper: TextEditor._calculate_cursor_on_display *)

RECURSIVE CursorWalk(_, _, _, _, _, _)
\* the for loop over display_y, carrying char_offset; the result is (y, x)
CursorWalk(dl, map, cy, cx, display_y, char_offset) ==
    IF display_y >= Len(dl)
    THEN << Len(dl) - 1, Len(dl[Len(dl)]) >>
    ELSE IF map[display_y + 1] # cy
    THEN << display_y - 1, Len(dl[display_y]) >>
    ELSE IF cx <= char_offset + Len(dl[display_y + 1])
    THEN << display_y, cx - char_offset >>
    ELSE CursorWalk(dl, map, cy, cx, display_y + 1,
                    char_offset + Len(dl[display_y + 1]) + 1)

\* source_line_map.index(y): the first display row of logical line y
FirstIndex(map, y) == CHOOSE i \in 0..(Len(map) - 1) :
                          /\ map[i + 1] = y
                          /\ \A j \in 0..(i - 1) : map[j + 1] # y

\* the mapper that keeps the logical column as the display column
_calculate_cursor_on_display_SourceColumn(dl, map, cy, cx) ==
    IF dl = <<>> \/ ~(0 <= cy /\ cy < Len(map)) THEN << 0, 0 >>
    ELSE IF ~(\E i \in 1..Len(map) : map[i] = cy) THEN << 0, 0 >>
    ELSE << CursorWalk(dl, map, cy, cx, FirstIndex(map, cy), 0)[1], cx >>

\* the mapper that falls back to the end of the last display line
_calculate_cursor_on_display_FallbackLast(dl, map, cy, cx) ==
    IF dl = <<>> THEN << 0, 0 >>
    ELSE IF ~(0 <= cy /\ cy < Len(map)) \/ ~(\E i \in 1..Len(map) : map[i] = cy)
    THEN << Len(dl) - 1, Len(dl[Len(dl)]) >>
    ELSE CursorWalk(dl, map, cy, cx, FirstIndex(map, cy), 0)

\* TextEditor._calculate_cursor_on_display: the (y, x) of the cursor on the
\* display lines
_calculate_cursor_on_display(dl, map, cy, cx) ==
    IF dl = <<>> \/ ~(0 <= cy /\ cy < Len(map)) THEN << 0, 0 >>
    ELSE IF ~(\E i \in 1..Len(map) : map[i] = cy) THEN << 0, 0 >>
    ELSE CursorWalk(dl, map, cy, cx, FirstIndex(map, cy), 0)

\* display_to_logical of the design document (the editor has no such
\* function): row and target column to (logical line, logical column)
RECURSIVE EarlierLen(_, _, _)
EarlierLen(dl, map, row) ==
    IF row = 0 \/ map[row] # map[row + 1] THEN 0
    ELSE EarlierLen(dl, map, row - 1) + Len(dl[row]) + 1

display_to_logical(dl, map, row, col) ==
    << map[row + 1], EarlierLen(dl, map, row) + Min(col, Len(dl[row + 1])) >>

-----------------------------------------------------------------------------
(* Keyboard events *)

\* evdev key codes the model feeds to the editor
ArrowCodes == {"KEY_UP", "KEY_DOWN", "KEY_LEFT", "KEY_RIGHT"}
ShiftCodes == {"KEY_LEFTSHIFT", "KEY_RIGHTSHIFT"}
HotkeyCodes == {"KEY_F1", "KEY_F2"}

Ev(type, code, value) == [type |-> type, code |-> code, value |-> value]
Press(code) == Ev("EV_KEY", code, 1)
NoEvent == Ev("none", "none", 0)

\* the events of a poll batch: key presses (value 1), a release (0), a
\* repeat (2) and a non-key event
Events ==
    { Press(c) : c \in ArrowCodes \cup HotkeyCodes \cup
                        {"KEY_ENTER", "KEY_BACKSPACE", "KEY_ESC",
                         "KEY_LEFTSHIFT", "KEY_A"} }
    \cup { Ev("EV_KEY", "KEY_LEFTSHIFT", 0), Ev("EV_KEY", "KEY_BACKSPACE", 2),
           Ev("EV_SYN", "SYN_REPORT", 0) }

\* a dict entry and a str entry of KEY_MAP
Dict(u, s) == [kind |-> "dict", unshifted |-> u, shifted |-> s, str |-> <<>>]
Str(s) == [kind |-> "str", unshifted |-> <<>>, shifted |-> <<>>, str |-> s]

\* KEY_MAP of keyboard.py, for the codes above
KEY_MAP ==
    [c \in {"KEY_A", "KEY_SPACE", "KEY_ENTER", "KEY_BACKSPACE", "KEY_ESC",
            "KEY_F1", "KEY_F2", "KEY_UP", "KEY_DOWN", "KEY_LEFTSHIFT"} |->
       CASE c = "KEY_A"         -> Dict(<<"a">>, <<"A">>)
         [] c = "KEY_SPACE"     -> Str(<<" ">>)
         [] c = "KEY_ENTER"     -> Str(<<"E","N","T","E","R">>)
         [] c = "KEY_BACKSPACE" -> Str(<<"B","A","C","K","S","P","A","C","E">>)
         [] c = "KEY_ESC"       -> Str(<<"E","S","C","A","P","E","_","K","E","Y">>)
         [] c = "KEY_F1"        -> Str(<<"W","O","R","D","_","C","O","U","N","T","_","H","O","T","K","E","Y">>)
         [] c = "KEY_F2"        -> Str(<<"T","I","M","E","_","D","I","S","P","L","A","Y","_","H","O","T","K","E","Y">>)
         [] c = "KEY_UP"        -> Str(<<"S","C","R","O","L","L","_","U","P">>)
         [] c = "KEY_DOWN"      -> Str(<<"S","C","R","O","L","L","_","D","O","W","N">>)
         [] c = "KEY_LEFTSHIFT" -> Str(<<"L","S","H","I","F","T">>)]

\* the attributes an instance of class Keyboard has (set by __init__);
\* KEY_MAP is a constant of the module keyboard, not an attribute
KeyboardAttrs == {"device", "shift_pressed"}

\* the result of a call: a value, or an exception raised
Return(v) == [raised |-> FALSE, value |-> v]
Raise == [raised |-> TRUE, value |-> <<>>]
\* None (and the empty string, equally false in `if char_to_add`)
None == <<>>

\* AdaWriter._get_char_from_event: the character of a key code under the
\* shift state; reading self.keyboard.key_map raises AttributeError
_get_char_from_event(code, shift) ==
    IF "key_map" \notin KeyboardAttrs THEN Raise
    ELSE IF code \in DOMAIN KEY_MAP
         THEN LET char_data == KEY_MAP[code]
              IN  IF char_data.kind = "dict"
                  THEN Return(IF shift THEN char_data.shifted ELSE char_data.unshifted)
                  ELSE IF Len(char_data.str) = 1 THEN Return(char_data.str)
                       ELSE Return(None)
         ELSE Return(None)

-----------------------------------------------------------------------------
(* TextEditor._handle_editor_input, on the record es of the editor state   *)
(* (lines, cursor_x, cursor_y and the dirty flags)                         *)

\* lines with line y (0-based) replaced by s
SetLine(ls, y, s) == [ls EXCEPT ![y + 1] = s]
\* lines.insert(y, s) and lines.pop(y)
InsertLine(ls, y, s) == SubSeq(ls, 1, y) \o << s >> \o SubSeq(ls, y + 1, Len(ls))
PopLine(ls, y) == SubSeq(ls, 1, y) \o SubSeq(ls, y + 2, Len(ls))

\* KeyArrow with Up and Down keeping the column unclamped
KeyArrow_Unclamped(es, code) ==
    LET cx == es.cursor_x
        cy == es.cursor_y
        ls == es.lines
    IN  CASE code = "KEY_UP" ->
               IF cy > 0 THEN [es EXCEPT !.cursor_y = cy - 1] ELSE es
          [] code = "KEY_DOWN" ->
               IF cy < Len(ls) - 1 THEN [es EXCEPT !.cursor_y = cy + 1] ELSE es
          [] code = "KEY_LEFT" ->
               IF cx > 0 THEN [es EXCEPT !.cursor_x = cx - 1]
               ELSE IF cy > 0
               THEN [es EXCEPT !.cursor_y = cy - 1, !.cursor_x = Len(ls[cy])]
               ELSE es
          [] code = "KEY_RIGHT" ->
               IF cx < Len(ls[cy + 1]) THEN [es EXCEPT !.cursor_x = cx + 1]
               ELSE IF cy < Len(ls) - 1
               THEN [es EXCEPT !.cursor_y = cy + 1, !.cursor_x = 0]
               ELSE es

\* KeyArrow whose Left and Right stop at the ends of the line
KeyArrow_WithinLine(es, code) ==
    LET cx == es.cursor_x
        cy == es.cursor_y
        ls == es.lines
    IN  CASE code = "KEY_UP" ->
               IF cy > 0
               THEN [es EXCEPT !.cursor_y = cy - 1,
                               !.cursor_x = Min(cx, Len(ls[cy]))]
               ELSE es
          [] code = "KEY_DOWN" ->
               IF cy < Len(ls) - 1
               THEN [es EXCEPT !.cursor_y = cy + 1,
                               !.cursor_x = Min(cx, Len(ls[cy + 2]))]
               ELSE es
          [] code = "KEY_LEFT" ->
               IF cx > 0 THEN [es EXCEPT !.cursor_x = cx - 1] ELSE es
          [] code = "KEY_RIGHT" ->
               IF cx < Len(ls[cy + 1]) THEN [es EXCEPT !.cursor_x = cx + 1] ELSE es

\* the four arrow keys
KeyArrow(es, code) ==
    LET cx == es.cursor_x
        cy == es.cursor_y
        ls == es.lines
    IN  CASE code = "KEY_UP" ->
               IF cy > 0
               THEN [es EXCEPT !.cursor_y = cy - 1,
                               !.cursor_x = Min(cx, Len(ls[cy]))]
               ELSE es
          [] code = "KEY_DOWN" ->
               IF cy < Len(ls) - 1
               THEN [es EXCEPT !.cursor_y = cy + 1,
                               !.cursor_x = Min(cx, Len(ls[cy + 2]))]
               ELSE es
          [] code = "KEY_LEFT" ->
               IF cx > 0 THEN [es EXCEPT !.cursor_x = cx - 1]
               ELSE IF cy > 0
               THEN [es EXCEPT !.cursor_y = cy - 1, !.cursor_x = Len(ls[cy])]
               ELSE es
          [] code = "KEY_RIGHT" ->
               IF cx < Len(ls[cy + 1]) THEN [es EXCEPT !.cursor_x = cx + 1]
               ELSE IF cy < Len(ls) - 1
               THEN [es EXCEPT !.cursor_y = cy + 1, !.cursor_x = 0]
               ELSE es

\* KeyEnter that inserts the remainder without truncating the current line
KeyEnter_NoTruncate(es) ==
    LET cx == es.cursor_x
        cy == es.cursor_y
        current_line == es.lines[cy + 1]
    IN  [es EXCEPT !.layout_changed = TRUE,
                   !.lines = InsertLine(es.lines, cy + 1, Suffix(current_line, cx)),
                   !.cursor_y = cy + 1,
                   !.cursor_x = 0]

\* KEY_ENTER: split the line at the cursor
KeyEnter(es) ==
    LET cx == es.cursor_x
        cy == es.cursor_y
        current_line == es.lines[cy + 1]
    IN  [es EXCEPT !.layout_changed = TRUE,
                   !.lines = InsertLine(SetLine(es.lines, cy, Prefix(current_line, cx)),
                                        cy + 1, Suffix(current_line, cx)),
                   !.cursor_y = cy + 1,
                   !.cursor_x = 0]

\* KeyBackspace that leaves the cursor at column 0 after a join
KeyBackspace_JoinAtZero(es) ==
    LET cx == es.cursor_x
        cy == es.cursor_y
        ls == es.lines
    IN  IF cx > 0
        THEN [es EXCEPT !.lines = SetLine(ls, cy, Prefix(ls[cy + 1], cx - 1)
                                                   \o Suffix(ls[cy + 1], cx)),
                        !.cursor_x = cx - 1]
        ELSE IF cy > 0
        THEN LET popped == PopLine(ls, cy)
             IN  [es EXCEPT !.lines = SetLine(popped, cy - 1, popped[cy] \o ls[cy + 1]),
                            !.cursor_y = cy - 1,
                            !.cursor_x = 0,
                            !.layout_changed = TRUE]
        ELSE es

\* KeyBackspace that deletes the character under the cursor
KeyBackspace_DeleteAhead(es) ==
    LET cx == es.cursor_x
        cy == es.cursor_y
        ls == es.lines
    IN  IF cx > 0
        THEN [es EXCEPT !.lines = SetLine(ls, cy, Prefix(ls[cy + 1], cx)
                                                   \o Suffix(ls[cy + 1], cx + 1)),
                        !.cursor_x = cx - 1]
        ELSE es

\* KEY_BACKSPACE: delete before the cursor, or join with the previous line
KeyBackspace(es) ==
    LET cx == es.cursor_x
        cy == es.cursor_y
        ls == es.lines
    IN  IF cx > 0
        THEN [es EXCEPT !.lines = SetLine(ls, cy, Prefix(ls[cy + 1], cx - 1)
                                                   \o Suffix(ls[cy + 1], cx)),
                        !.cursor_x = cx - 1]
        ELSE IF cy > 0
        THEN LET original_line_content == ls[cy + 1]
                 popped == PopLine(ls, cy)
                 prev_line_len == Len(popped[cy])
             IN  [es EXCEPT !.lines = SetLine(popped, cy - 1,
                                              popped[cy] \o original_line_content),
                            !.cursor_y = cy - 1,
                            !.cursor_x = prev_line_len,
                            !.layout_changed = TRUE]
        ELSE es

\* a character key: insert char_to_add at the cursor
KeyChar(es, char_to_add) ==
    LET cx == es.cursor_x
        cy == es.cursor_y
        ls == es.lines
    IN  [es EXCEPT !.lines = SetLine(ls, cy, Prefix(ls[cy + 1], cx) \o char_to_add
                                             \o Suffix(ls[cy + 1], cx)),
                   !.cursor_x = cx + Len(char_to_add)]

RECURSIVE CountWords(_)
\* the number of non-empty words in a sequence of words
CountWords(words) ==
    IF words = <<>> THEN 0
    ELSE (IF Head(words) = <<>> THEN 0 ELSE 1) + CountWords(Tail(words))

RECURSIVE WordCount(_)
\* len("\n".join(lines).split())
WordCount(ls) ==
    IF ls = <<>> THEN 0
    ELSE CountWords(split(Head(ls), <<>>)) + WordCount(Tail(ls))

\* KEY_F1 / KEY_F2 on the record app of the indicator fields, at time t
KeyHotkey(app, code, ls, t) ==
    IF code = "KEY_F1"
    THEN [app EXCEPT !.current_word_count_text = << "Words", WordCount(ls) >>,
                     !.word_count_active = TRUE,
                     !.word_count_timer = t]
    ELSE [app EXCEPT !.current_time_text = << "Clock", t >>,
                     !.time_display_active = TRUE,
                     !.time_display_timer = t]

\* the whole handler for a key-down event that is neither shift nor ESC:
\* the new editor state, the new indicator fields, and whether it raised
_handle_editor_input(code, es, app, shift, t) ==
    LET es1 == [es EXCEPT !.cursor_visible = TRUE, !.content_changed = TRUE]
    IN  IF code \in ArrowCodes
        THEN [es |-> KeyArrow(es1, code), app |-> app, raised |-> FALSE]
        ELSE IF code = "KEY_ENTER"
        THEN [es |-> KeyEnter(es1), app |-> app, raised |-> FALSE]
        ELSE IF code = "KEY_BACKSPACE"
        THEN [es |-> KeyBackspace(es1), app |-> app, raised |-> FALSE]
        ELSE IF code \in HotkeyCodes
        THEN [es |-> [es1 EXCEPT !.timers_changed = TRUE],
              app |-> KeyHotkey(app, code, es.lines, t), raised |-> FALSE]
        ELSE LET call == _get_char_from_event(code, shift)
                 char_to_add == call.value
             IN  IF call.raised
                 THEN [es |-> es1, app |-> app, raised |-> TRUE]
                 ELSE IF char_to_add # None
                 THEN [es |-> KeyChar(es1, char_to_add), app |-> app, raised |-> FALSE]
                 ELSE [es |-> es1, app |-> app, raised |-> FALSE]

-----------------------------------------------------------------------------
(* Bounds and constants of the editing session *)

\* most lines that fit the text area (max_lines_on_screen is computed from
\* the panel height and the font metrics)
MaxScreenLines == 2
\* Enter is not fed to a document that already has this many lines
MaxLines == 2
\* events read in one poll batch
MaxBatch == 2
\* the clock advances by TickMs between two polls, up to MaxTime; one tick
\* outlasts an indicator, two ticks the inactivity timeouts
TickMs == 3001
MaxTime == 9003

BLINK_INTERVAL_MS == 800
cursor_inactivity_timeout == 5
\* 100 in the source; scaled down so that the forced refresh is reached
FULL_REFRESH_INTERVAL == 3
INACTIVITY_SAVE_TIMEOUT == 5000
AUTO_SAVE_INDICATOR_DURATION == 3000
WORD_COUNT_DISPLAY_DURATION == 3000

-----------------------------------------------------------------------------
(* Storage: a file is absent or holds a text with "\n" line terminators *)

NoFile == [exists |-> FALSE, content |-> <<>>]
File(text) == [exists |-> TRUE, content |-> text]

RECURSIVE splitlines(_, _)
\* str.splitlines(): the lines of `text` that follow the partly read `cur`
splitlines(text, cur) ==
    IF text = <<>> THEN (IF cur = <<>> THEN <<>> ELSE << cur >>)
    ELSE IF Head(text) = "\n" THEN << cur >> \o splitlines(Tail(text), <<>>)
    ELSE splitlines(Tail(text), Append(cur, Head(text)))

RECURSIVE join(_)
\* '\n'.join(lines)
join(ls) ==
    IF ls = <<>> THEN <<>>
    ELSE IF Len(ls) = 1 THEN ls[1]
    ELSE ls[1] \o << "\n" >> \o join(Tail(ls))

\* a write that leaves out the terminator of the last line
SavedText_NoTerminator(ls) == join(ls)

\* f.write('\n'.join(lines) + '\n')
SavedText(ls) == join(ls) \o << "\n" >>

RECURSIVE lstrip(_)
\* str.lstrip(): the text without its leading blanks and line ends
lstrip(s) ==
    IF s # <<>> /\ Head(s) \in {" ", "\n"} THEN lstrip(Tail(s)) ELSE s

RECURSIVE strip(_)
\* str.strip(): the text without its leading and trailing blanks and line ends
strip(s) ==
    IF s # <<>> /\ s[Len(s)] \in {" ", "\n"} THEN strip(SubSeq(s, 1, Len(s) - 1))
    ELSE lstrip(s)

\* AdaWriter._update_monthly_journal: the monthly file after the aggregation
\* of the daily files of the month, of which the session's file is the only
\* one; ok: whether the directory and the files can be accessed (an OSError
\* is logged and leaves the monthly file as it was)
_update_monthly_journal(daily, old_monthly, ok) ==
    IF ok /\ daily.exists
    THEN LET full_daily_content == daily.content \o << "\n", "\n" >>
         IN  File(strip(full_daily_content))
    ELSE old_monthly

\* line.startswith("---")
StartsWithDashes(line) == Len(line) >= 3 /\ SubSeq(line, 1, 3) = <<"-", "-", "-">>

\* the journal header f"--- {current_time} ---", current_time as "%I:%M%p"
JournalHeader == <<"-","-","-"," ","0","9",":","0","5","a","m"," ","-","-","-">>

\* LoadDocument that starts a missing file with no line at all
LoadDocument_NoLine(f, journal) ==
    IF ~f.exists
    THEN [lines |-> <<>>, cursor_y |-> 0, cursor_x |-> 0]
    ELSE LET l0 == IF f.content # <<>> THEN splitlines(f.content, <<>>) ELSE << <<>> >>
         IN  [lines |-> l0, cursor_y |-> Len(l0) - 1, cursor_x |-> Len(l0[Len(l0)])]

\* TextEditor.run: the lines and the cursor the session starts with
\* the load that drops the empty lines of the file
LoadDocument_SkipBlank(f, journal) ==
    LET IsText(l) == l # <<>>
        l0 == IF f.exists THEN SelectSeq(splitlines(f.content, <<>>), IsText) ELSE <<>>
        l1 == IF l0 = <<>> THEN << <<>> >> ELSE l0
    IN  [lines |-> l1, cursor_y |-> Len(l1) - 1, cursor_x |-> Len(l1[Len(l1)])]

LoadDocument(f, journal) ==
    IF ~f.exists
    THEN [lines |-> << <<>> >>, cursor_y |-> 0, cursor_x |-> 0]
    ELSE LET initial_content == f.content
             l0 == IF initial_content # <<>>
                   THEN splitlines(initial_content, <<>>) ELSE << <<>> >>
             l1 == IF journal /\ (l0 = <<>> \/ ~StartsWithDashes(l0[Len(l0)]))
                   THEN l0 \o << <<>>, JournalHeader, <<>> >>
                   ELSE l0
         IN  [lines |-> l1, cursor_y |-> Len(l1) - 1, cursor_x |-> Len(l1[Len(l1)])]

-----------------------------------------------------------------------------
(* Scroll controller and refresh scheduler of TextEditor._main_loop *)

\* InitialScroll without the clamp at 0
InitialScroll_NoClamp(initial_cursor_display_y, m) ==
    initial_cursor_display_y - (m \div 2)

\* scroll_offset when the editor opens
InitialScroll(initial_cursor_display_y, m) ==
    Max(0, initial_cursor_display_y - (m \div 2))

\* "Adjust scroll offset if cursor moves out of view"
\* the adjustment that follows the cursor upwards only
AdjustScroll_UpOnly(so, row, m) ==
    IF row < so THEN row ELSE so

AdjustScroll(so, row, m) ==
    LET so1 == IF row < so THEN row ELSE so
    IN  IF row >= so1 + m
        THEN row - m + 1
        ELSE so1

\* is_full_refresh_needed that looks at the interval only
IsFullRefreshNeeded_IntervalOnly(layout, count) == count >= FULL_REFRESH_INTERVAL

\* is_full_refresh_needed without the forced refresh
IsFullRefreshNeeded_LayoutOnly(layout, count) == layout

\* is_full_refresh_needed that forces the full refresh one repaint late
IsFullRefreshNeeded_Late(layout, count) == layout \/ count > FULL_REFRESH_INTERVAL

\* is_full_refresh_needed
IsFullRefreshNeeded(layout, count) == layout \/ count >= FULL_REFRESH_INTERVAL

\* a commit that never resets the count
CountAfterCommit_NoReset(is_full, count) == count + 1

\* partial_refresh_count after a display commit
CountAfterCommit(is_full, count) == IF is_full THEN 0 ELSE count + 1

-----------------------------------------------------------------------------
(* Status indicators of AdaWriter *)

AppOf == [word_count_active |-> word_count_active,
          word_count_timer |-> word_count_timer,
          current_word_count_text |-> current_word_count_text,
          time_display_active |-> time_display_active,
          time_display_timer |-> time_display_timer,
          current_time_text |-> current_time_text,
          save_indicator_active |-> save_indicator_active,
          save_indicator_timer |-> save_indicator_timer]

SetApp(app) ==
    /\ word_count_active' = app.word_count_active
    /\ word_count_timer' = app.word_count_timer
    /\ current_word_count_text' = app.current_word_count_text
    /\ time_display_active' = app.time_display_active
    /\ time_display_timer' = app.time_display_timer
    /\ current_time_text' = app.current_time_text
    /\ save_indicator_active' = app.save_indicator_active
    /\ save_indicator_timer' = app.save_indicator_timer

NoText == << >>
SavedLabel == << "Saved" >>

\* _get_active_indicator_text that looks at the save indicator first
_get_active_indicator_text_SavedFirst(app, t) ==
    IF app.save_indicator_active /\ (t - app.save_indicator_timer <= AUTO_SAVE_INDICATOR_DURATION)
    THEN SavedLabel
    ELSE IF app.word_count_active /\ (t - app.word_count_timer <= WORD_COUNT_DISPLAY_DURATION)
    THEN app.current_word_count_text
    ELSE IF app.time_display_active /\ (t - app.time_display_timer <= WORD_COUNT_DISPLAY_DURATION)
    THEN app.current_time_text
    ELSE NoText

\* AdaWriter._get_active_indicator_text at time t
_get_active_indicator_text(app, t) ==
    IF app.word_count_active /\ (t - app.word_count_timer <= WORD_COUNT_DISPLAY_DURATION)
    THEN app.current_word_count_text
    ELSE IF app.time_display_active /\ (t - app.time_display_timer <= WORD_COUNT_DISPLAY_DURATION)
    THEN app.current_time_text
    ELSE IF app.save_indicator_active /\ (t - app.save_indicator_timer <= AUTO_SAVE_INDICATOR_DURATION)
    THEN SavedLabel
    ELSE NoText

\* _update_editor_indicators that expires the indicators without reporting it
_update_editor_indicators_Silent(app, t) ==
    LET wc == app.word_count_active /\ (t - app.word_count_timer > WORD_COUNT_DISPLAY_DURATION)
        td == app.time_display_active /\ (t - app.time_display_timer > WORD_COUNT_DISPLAY_DURATION)
        sv == app.save_indicator_active /\ (t - app.save_indicator_timer > AUTO_SAVE_INDICATOR_DURATION)
    IN  [app |-> [app EXCEPT !.word_count_active = IF wc THEN FALSE ELSE @,
                             !.time_display_active = IF td THEN FALSE ELSE @,
                             !.save_indicator_active = IF sv THEN FALSE ELSE @],
         changed |-> FALSE]

\* AdaWriter._update_editor_indicators at time t: the new fields and `changed`
_update_editor_indicators(app, t) ==
    LET wc == app.word_count_active /\ (t - app.word_count_timer > WORD_COUNT_DISPLAY_DURATION)
        td == app.time_display_active /\ (t - app.time_display_timer > WORD_COUNT_DISPLAY_DURATION)
        sv == app.save_indicator_active /\ (t - app.save_indicator_timer > AUTO_SAVE_INDICATOR_DURATION)
    IN  [app |-> [app EXCEPT !.word_count_active = IF wc THEN FALSE ELSE @,
                             !.time_display_active = IF td THEN FALSE ELSE @,
                             !.save_indicator_active = IF sv THEN FALSE ELSE @],
         changed |-> wc \/ td \/ sv]

\* the save indicator activated without a new timer
ActivateSaveIndicator_NoTimer(app, t) ==
    [app EXCEPT !.save_indicator_active = TRUE]

\* self.app.save_indicator_active, self.app.save_indicator_timer = True, now
ActivateSaveIndicator(app, t) ==
    [app EXCEPT !.save_indicator_active = TRUE, !.save_indicator_timer = t]

-----------------------------------------------------------------------------
(* The editor state as a record, and its assignment *)

EsOf == [lines |-> lines, cursor_x |-> cursor_x, cursor_y |-> cursor_y,
         cursor_visible |-> cursor_visible,
         layout_changed |-> layout_changed,
         content_changed |-> content_changed,
         timers_changed |-> timers_changed]

SetEs(es) ==
    /\ lines' = es.lines
    /\ cursor_x' = es.cursor_x
    /\ cursor_y' = es.cursor_y
    /\ cursor_visible' = es.cursor_visible
    /\ layout_changed' = es.layout_changed
    /\ content_changed' = es.content_changed
    /\ timers_changed' = es.timers_changed

esVars == << lines, cursor_x, cursor_y, cursor_visible,
             layout_changed, content_changed, timers_changed >>
appVars == << word_count_active, word_count_timer, current_word_count_text,
              time_display_active, time_display_timer, current_time_text,
              save_indicator_active, save_indicator_timer >>
viewVars == << display_lines, source_line_map, cursor_display_pos >>
envVars == << file, is_journal, max_lines_on_screen, monthly >>
webVars == << web_pc, web_content, last_writer >>
\* the variables of the programs around the editing loop of ada_writer.py
auxVars == << last_save_time, shell, panel, fs, http >>

\* the regions of the screen: draw_header_and_footer and draw_text_area
HeaderFooter == "header_footer"
TextArea == "text_area"
\* draw_ui draws both
WholeScreen == { HeaderFooter, TextArea }

\* a step that writes no file and draws nothing
NoOutput ==
    /\ write' = "none" /\ drawn' = {} /\ indicator_text' = NoText
    /\ aggregation' = "none"

-----------------------------------------------------------------------------
(* The editing session: TextEditor.run and TextEditor._main_loop *)

\* the files an editing session is opened on: in Spec, and in SpecEdit
Files == { NoFile, File(<<"a", "\n">>) }
EditFiles == { NoFile,
               File(<<>>),
               File(<<"a", "b", " ", "c", "\n">>),
               File(<<"a", "\n", "b", "c", "\n">>) }

Hello == <<"H","e","l","l","o",","," ","w","o","r","l","d",".">>

\* the events fed to the loop: in Spec, and in SpecEdit
LoopEvents ==
    { Press(c) : c \in {"KEY_ENTER", "KEY_BACKSPACE", "KEY_LEFT", "KEY_F1",
                        "KEY_F2", "KEY_ESC", "KEY_A"} }
EditEvents == { e \in Events : e.code \notin HotkeyCodes }

\* every variable but the document, the display lines, the session inputs
\* and the position
FreshState ==
    /\ scroll_offset = 0 /\ cursor_visible = TRUE
    /\ layout_changed = FALSE /\ content_changed = FALSE /\ timers_changed = FALSE
    /\ cursor_display_pos = << 0, 0 >>
    /\ content_changed_since_last_save = FALSE
    /\ shift_pressed = FALSE
    /\ last_activity_time = 0 /\ last_blink_time = 0
    /\ cursor_blink_on = TRUE /\ partial_refresh_count = 0
    /\ word_count_active = FALSE /\ word_count_timer = 0
    /\ current_word_count_text = NoText
    /\ time_display_active = FALSE /\ time_display_timer = 0
    /\ current_time_text = NoText
    /\ save_indicator_active = FALSE /\ save_indicator_timer = 0
    /\ now = 0 /\ batch_n = 0
    /\ last_event = NoEvent /\ commit = "none" /\ last_hotkey = "none"
    /\ scenario_bs = -1
    /\ write = "none" /\ drawn = {} /\ indicator_text = NoText
    /\ aggregation = "none"
    /\ web_pc = "idle" /\ web_content = <<>> /\ last_writer = "none"
    /\ last_save_time = 0
    /\ shell = [pc |-> "startup", SHUTDOWN_REQUESTED |-> FALSE, idle |-> FALSE,
                is_first_loop |-> TRUE, selected_index |-> 0]
    /\ panel = [_current_mode |-> "unset", _is_sleeping |-> TRUE,
                epd_mode |-> "none", transfers |-> {}]
    /\ fs = (<<"p">> :> "old" @@ <<"p", "x">> :> "old" @@ <<"a">> :> "absent"
             @@ <<"t">> :> "absent" @@ <<"t", "x">> :> "old")
    /\ http = [route |-> "none", base |-> <<>>, filename |-> <<>>,
               status |-> "none", touched |-> {}]

\* the same, with no display line computed yet
Fresh == FreshState /\ display_lines = <<>> /\ source_line_map = <<>>

\* the state before run() is called: the editor and the application are
\* constructed, no document is loaded yet
Constructed(f, journal, m) ==
    /\ Fresh
    /\ lines = << <<>> >> /\ cursor_x = 0 /\ cursor_y = 0
    /\ file = f /\ is_journal = journal /\ max_lines_on_screen = m
    /\ monthly = NoFile
    /\ pc = "init"

Init == \E f \in Files : Constructed(f, FALSE, MaxScreenLines)

\* run(): load the file, then the prologue of _main_loop up to the initial
\* full draw
Run ==
    /\ UNCHANGED auxVars
    /\ pc = "init"
    /\ LET doc == LoadDocument(file, is_journal)
           w   == _get_wrapped_lines(doc.lines)
           pos == _calculate_cursor_on_display(w.dl, w.map, doc.cursor_y, doc.cursor_x)
       IN  /\ lines' = doc.lines
           /\ cursor_x' = doc.cursor_x
           /\ cursor_y' = doc.cursor_y
           /\ scroll_offset' = InitialScroll(pos[1], max_lines_on_screen)
    /\ cursor_visible' = TRUE
    /\ layout_changed' = FALSE /\ content_changed' = FALSE /\ timers_changed' = FALSE
    /\ shift_pressed' = FALSE
    /\ last_activity_time' = now
    /\ last_blink_time' = now
    /\ cursor_blink_on' = TRUE
    /\ partial_refresh_count' = CountAfterCommit(TRUE, 0)
    /\ commit' = "full"
    /\ content_changed_since_last_save' = FALSE
    /\ pc' = "poll" /\ batch_n' = 0
    /\ last_event' = NoEvent
    /\ write' = "none" /\ aggregation' = "none"
    /\ drawn' = WholeScreen
    /\ indicator_text' = _get_active_indicator_text(AppOf, now)
    /\ UNCHANGED << viewVars, appVars, envVars, webVars, now, last_hotkey,
                    scenario_bs >>

\* time passes between two polls of the keyboard
Tick ==
    /\ UNCHANGED auxVars
    /\ pc = "poll"
    /\ now + TickMs <= MaxTime
    /\ now' = now + TickMs
    /\ commit' = "none" /\ last_event' = NoEvent
    /\ NoOutput
    /\ UNCHANGED << esVars, viewVars, appVars, envVars, webVars, scroll_offset,
                    content_changed_since_last_save, shift_pressed,
                    last_activity_time, last_blink_time, cursor_blink_on,
                    partial_refresh_count, pc, batch_n, last_hotkey, scenario_bs >>

\* self.keyboard.has_input(0.05)
PollInput(ready) ==
    /\ UNCHANGED auxVars
    /\ pc = "poll"
    /\ pc' = IF ready THEN "events" ELSE "timers"
    /\ batch_n' = 0
    /\ commit' = "none" /\ last_event' = NoEvent
    /\ NoOutput
    /\ UNCHANGED << esVars, viewVars, appVars, envVars, webVars, scroll_offset,
                    content_changed_since_last_save, shift_pressed,
                    last_activity_time, last_blink_time, cursor_blink_on,
                    partial_refresh_count, now, last_hotkey, scenario_bs >>

\* the scenario counter after code was handled and left the state es
ScenarioAfter(code, es) ==
    IF es.lines = << Hello >> /\ es.cursor_y = 0 /\ es.cursor_x = 7 THEN 0
    ELSE IF code = "KEY_BACKSPACE" /\ scenario_bs \in 0..6 THEN scenario_bs + 1
    ELSE -1

\* one pass of the body of "for event in self.keyboard.read_events()";
\* storage_ok: whether open(file_path, 'w') succeeds, should the event be ESC
ReadEvent(event, storage_ok) ==
    /\ UNCHANGED auxVars
    /\ pc = "events"
    /\ batch_n < MaxBatch
    /\ event.code = "KEY_ENTER" /\ event.value = 1 => Len(lines) < MaxLines
    /\ batch_n' = batch_n + 1
    /\ commit' = "none" /\ drawn' = {} /\ indicator_text' = NoText
    /\ last_event' = event
    /\ UNCHANGED << viewVars, is_journal, max_lines_on_screen, scroll_offset,
                    partial_refresh_count, now, web_pc, web_content >>
    /\ IF event.type # "EV_KEY"
       THEN /\ write' = "none" /\ aggregation' = "none"
            /\ UNCHANGED << esVars, appVars, file, monthly, last_writer,
                            content_changed_since_last_save,
                            shift_pressed, last_activity_time, last_blink_time,
                            cursor_blink_on, pc, last_hotkey, scenario_bs >>
       ELSE /\ last_activity_time' = now
            /\ cursor_blink_on' = TRUE
            /\ last_blink_time' = now
            /\ IF event.code \in ShiftCodes
               THEN /\ shift_pressed' = (event.value # 0)
                    /\ write' = "none" /\ aggregation' = "none"
                    /\ UNCHANGED << esVars, appVars, file, monthly, last_writer, pc,
                                    last_hotkey, content_changed_since_last_save,
                                    scenario_bs >>
               ELSE IF event.value # 1
               THEN /\ write' = "none" /\ aggregation' = "none"
                    /\ UNCHANGED << esVars, appVars, file, monthly, last_writer, pc,
                                    last_hotkey, shift_pressed,
                                    content_changed_since_last_save, scenario_bs >>
               ELSE /\ content_changed_since_last_save' = TRUE
                    /\ UNCHANGED shift_pressed
                    /\ IF event.code = "KEY_ESC"
                       THEN /\ IF storage_ok
                               THEN /\ file' = File(SavedText(lines))
                                    /\ write' = "exit"
                                    /\ last_writer' = "editor"
                                    /\ SetApp(ActivateSaveIndicator(AppOf, now))
                                    /\ IF is_journal
                                       THEN \E ok \in BOOLEAN :
                                              /\ monthly' = _update_monthly_journal(
                                                                file', monthly, ok)
                                              /\ aggregation' =
                                                     IF ok THEN "done" ELSE "failed"
                                       ELSE /\ aggregation' = "none"
                                            /\ UNCHANGED monthly
                                    /\ pc' = "returned"
                               ELSE \* open() raises OSError, which nothing in
                                    \* the editor catches
                                    /\ write' = "failed" /\ aggregation' = "none"
                                    /\ pc' = "crashed"
                                    /\ UNCHANGED << file, appVars, monthly, last_writer >>
                            /\ UNCHANGED << esVars, last_hotkey, scenario_bs >>
                       ELSE LET r == _handle_editor_input(event.code, EsOf, AppOf,
                                                          shift_pressed, now)
                            IN  /\ SetEs(r.es)
                                /\ SetApp(r.app)
                                /\ pc' = IF r.raised THEN "crashed" ELSE "events"
                                /\ last_hotkey' = IF event.code \in HotkeyCodes
                                                  THEN event.code ELSE last_hotkey
                                /\ scenario_bs' = ScenarioAfter(event.code, r.es)
                                /\ write' = "none" /\ aggregation' = "none"
                                /\ UNCHANGED << file, monthly, last_writer >>

\* read_events() is exhausted
EndBatch ==
    /\ UNCHANGED auxVars
    /\ pc = "events"
    /\ pc' = "timers"
    /\ commit' = "none" /\ last_event' = NoEvent
    /\ NoOutput
    /\ UNCHANGED << esVars, viewVars, appVars, envVars, webVars, scroll_offset,
                    content_changed_since_last_save, shift_pressed,
                    last_activity_time, last_blink_time, cursor_blink_on,
                    partial_refresh_count, now, batch_n, last_hotkey, scenario_bs >>

\* the position of "State Updates from Timers": after the for loop over the
\* events of the batch
AtTimers_InsideBatch(p) == p \in {"events", "timers"}

AtTimers(p) == p = "timers"

\* the inactivity save that ignores the unsaved-changes flag
InactivitySaveDue_AnyIdle(unsaved, t, last_activity) ==
    t - last_activity > INACTIVITY_SAVE_TIMEOUT

\* the condition of the inactivity save at time t
InactivitySaveDue(unsaved, t, last_activity) ==
    unsaved /\ (t - last_activity > INACTIVITY_SAVE_TIMEOUT)

\* "State Updates from Timers": cursor hiding, blinking, indicator expiry,
\* inactivity save; storage_ok: whether open(file_path, 'w') succeeds, should
\* the save be due
UpdateTimers(storage_ok) ==
    /\ UNCHANGED auxVars
    /\ AtTimers(pc)
    /\ LET current_time_ms == now
           hide  == (now - last_activity_time > cursor_inactivity_timeout * 1000)
                    /\ cursor_visible
           cv    == IF hide THEN FALSE ELSE cursor_visible
           blink == cv /\ (current_time_ms - last_blink_time > BLINK_INTERVAL_MS)
           upd   == _update_editor_indicators(AppOf, now)
           save  == InactivitySaveDue(content_changed_since_last_save, now,
                                      last_activity_time)
       IN  /\ cursor_visible' = cv
           /\ cursor_blink_on' = IF blink THEN ~cursor_blink_on ELSE cursor_blink_on
           /\ last_blink_time' = IF blink THEN current_time_ms ELSE last_blink_time
           /\ content_changed' = (content_changed \/ hide \/ blink)
           /\ IF save /\ ~storage_ok
              THEN \* open() raises OSError, which nothing in the editor catches
                   /\ timers_changed' = (timers_changed \/ upd.changed)
                   /\ SetApp(upd.app)
                   /\ write' = "failed"
                   /\ pc' = "crashed"
                   /\ UNCHANGED << file, last_writer, content_changed_since_last_save >>
              ELSE /\ timers_changed' = (timers_changed \/ upd.changed \/ save)
                   /\ SetApp(IF save THEN ActivateSaveIndicator(upd.app, now) ELSE upd.app)
                   /\ file' = IF save THEN File(SavedText(lines)) ELSE file
                   /\ write' = IF save THEN "inactivity" ELSE "none"
                   /\ last_writer' = IF save THEN "editor" ELSE last_writer
                   /\ content_changed_since_last_save' =
                          IF save THEN FALSE ELSE content_changed_since_last_save
                   /\ pc' = "render"
    /\ commit' = "none" /\ last_event' = NoEvent
    /\ drawn' = {} /\ indicator_text' = NoText
    \* the inactivity save writes the daily file and nothing else
    /\ aggregation' = "none"
    /\ UNCHANGED << lines, cursor_x, cursor_y, layout_changed, viewVars, is_journal,
                    max_lines_on_screen, monthly, web_pc, web_content,
                    scroll_offset, shift_pressed, last_activity_time,
                    partial_refresh_count, now, batch_n, last_hotkey, scenario_bs >>

\* a partial refresh that redraws the text area only
PartialRegions_TextOnly(content, timers) ==
    IF content THEN { TextArea } ELSE {}

\* the regions a partial refresh redraws
PartialRegions(content, timers) ==
    (IF content THEN { TextArea } ELSE {}) \cup (IF timers THEN { HeaderFooter } ELSE {})

\* "Rendering Logic": the repaint decision, the scroll adjustment, the
\* drawing, the display commit and the reset of the dirty flags
Render ==
    /\ UNCHANGED auxVars
    /\ pc = "render"
    /\ LET is_full_refresh_needed == IsFullRefreshNeeded(layout_changed, partial_refresh_count)
           is_content_refresh_needed == content_changed
           is_header_footer_refresh_needed == timers_changed
       IN  IF is_full_refresh_needed \/ is_content_refresh_needed
              \/ is_header_footer_refresh_needed
           THEN LET w   == _get_wrapped_lines(lines)
                    pos == _calculate_cursor_on_display(w.dl, w.map, cursor_y, cursor_x)
                    regions == IF is_full_refresh_needed THEN WholeScreen
                               ELSE PartialRegions(is_content_refresh_needed,
                                                   is_header_footer_refresh_needed)
                IN  /\ scroll_offset' = AdjustScroll(scroll_offset, pos[1], max_lines_on_screen)
                    /\ commit' = IF is_full_refresh_needed THEN "full" ELSE "partial"
                    /\ drawn' = regions
                    /\ indicator_text' = IF HeaderFooter \in regions
                                         THEN _get_active_indicator_text(AppOf, now)
                                         ELSE NoText
                    /\ partial_refresh_count' =
                           CountAfterCommit(is_full_refresh_needed, partial_refresh_count)
                    /\ layout_changed' = FALSE
                    /\ content_changed' = FALSE
                    /\ timers_changed' = FALSE
           ELSE /\ commit' = "none" /\ drawn' = {} /\ indicator_text' = NoText
                /\ UNCHANGED << scroll_offset, partial_refresh_count,
                                layout_changed, content_changed, timers_changed >>
    /\ pc' = "poll"
    /\ last_event' = NoEvent
    /\ write' = "none" /\ aggregation' = "none"
    /\ UNCHANGED << lines, cursor_x, cursor_y, cursor_visible, appVars, envVars,
                    webVars, viewVars, content_changed_since_last_save, shift_pressed,
                    last_activity_time, last_blink_time, cursor_blink_on,
                    now, batch_n, last_hotkey, scenario_bs >>

Next ==
    \/ Run
    \/ Tick
    \/ \E ready \in BOOLEAN : PollInput(ready)
    \/ \E event \in LoopEvents : \E storage_ok \in BOOLEAN : ReadEvent(event, storage_ok)
    \/ EndBatch
    \/ \E storage_ok \in BOOLEAN : UpdateTimers(storage_ok)
    \/ Render

Spec == Init /\ [][Next]_vars

\* the events fed to the loop in SpecLive: a press that edits, ESC, a
\* character key, the word-count hotkey, a key release and a non-key event
LiveEvents ==
    { Press("KEY_ENTER"), Press("KEY_ESC"), Press("KEY_A"), Press("KEY_F1"),
      Ev("EV_KEY", "KEY_LEFTSHIFT", 0), Ev("EV_SYN", "SYN_REPORT", 0) }

\* one step of the "while True" loop of _main_loop: the loop never waits
\* longer than the poll timeout of has_input, so it always goes on
Iterate ==
    \/ \E ready \in BOOLEAN : PollInput(ready)
    \/ \E event \in LiveEvents : \E storage_ok \in BOOLEAN : ReadEvent(event, storage_ok)
    \/ EndBatch
    \/ \E storage_ok \in BOOLEAN : UpdateTimers(storage_ok)
    \/ Render

NextLive ==
    \/ Run
    \/ Tick
    \/ Iterate

\* the session with a loop that keeps running, whatever the clock does
SpecLive == Init /\ [][NextLive]_vars /\ WF_vars(Run) /\ WF_vars(Iterate)

-----------------------------------------------------------------------------
(* The editing keys on larger documents, with the clock at rest and a      *)
(* storage that accepts every write                                        *)

InitEdit == \E f \in EditFiles : \E m \in 1..MaxScreenLines : Constructed(f, FALSE, m)

NextEdit ==
    \/ Run
    \/ \E ready \in BOOLEAN : PollInput(ready)
    \/ \E event \in EditEvents : ReadEvent(event, TRUE)
    \/ EndBatch
    \/ UpdateTimers(TRUE)
    \/ Render

SpecEdit == InitEdit /\ [][NextEdit]_vars

-----------------------------------------------------------------------------
(* The daily journal: show_journal opens today's file, which it has created *)
(* with the date and an empty line if it was missing                        *)

JournalFiles == { File(<<"d", "\n", "\n">>), File(<<"-", "-", "-", "\n">>) }
JournalEvents == { Press("KEY_BACKSPACE"), Press("KEY_ESC") }

InitJournal == \E f \in JournalFiles : Constructed(f, TRUE, MaxScreenLines)

NextJournal ==
    \/ Run
    \/ Tick
    \/ \E ready \in BOOLEAN : PollInput(ready)
    \/ \E event \in JournalEvents : \E storage_ok \in BOOLEAN :
          ReadEvent(event, storage_ok)
    \/ EndBatch
    \/ \E storage_ok \in BOOLEAN : UpdateTimers(storage_ok)
    \/ Render

SpecJournal == InitJournal /\ [][NextJournal]_vars

-----------------------------------------------------------------------------
(* The web server thread next to the editing loop.  Both write the file     *)
(* with open(file_path, 'w') followed by f.write(text): the open truncates  *)
(* the file, and the text reaches the file, at offset 0 of the handle, when *)
(* the with block closes it.  Here the ESC save of the loop is taken in     *)
(* these two steps, so that the steps of the two threads interleave.        *)

\* the file after open(file_path, 'w')
Truncate(f) == File(<<>>)

\* the file after f.write(text) on a handle opened before at offset 0: text
\* replaces the first len(text) characters, what lies behind them stays
WriteAt0(f, text) == File(text \o Suffix(f.content, Len(text)))

\* request.form.get('content', '') of the edit POSTs
WebContents == { <<"x", "\n">>, <<"a", "b", " ", "c", "d", "\n">> }
WebEvents == { Press("KEY_BACKSPACE"), Press("KEY_LEFT") }

\* edit_file, POST: open(file_path, 'w')
WebOpen(new_content) ==
    /\ UNCHANGED auxVars
    /\ web_pc = "idle"
    /\ pc # "init"
    /\ web_pc' = "opened"
    /\ web_content' = new_content
    /\ file' = Truncate(file)
    /\ commit' = "none" /\ last_event' = NoEvent
    /\ NoOutput
    /\ UNCHANGED << esVars, viewVars, appVars, is_journal, max_lines_on_screen,
                    monthly, last_writer, scroll_offset,
                    content_changed_since_last_save, shift_pressed,
                    last_activity_time, last_blink_time, cursor_blink_on,
                    partial_refresh_count, now, pc, batch_n, last_hotkey,
                    scenario_bs >>

\* edit_file, POST: f.write(new_content) and the end of the with block
WebWrite ==
    /\ UNCHANGED auxVars
    /\ web_pc = "opened"
    /\ web_pc' = "done"
    /\ file' = WriteAt0(file, web_content)
    /\ last_writer' = "web"
    /\ commit' = "none" /\ last_event' = NoEvent
    /\ NoOutput
    /\ UNCHANGED << esVars, viewVars, appVars, is_journal, max_lines_on_screen,
                    monthly, web_content, scroll_offset,
                    content_changed_since_last_save, shift_pressed,
                    last_activity_time, last_blink_time, cursor_blink_on,
                    partial_refresh_count, now, pc, batch_n, last_hotkey,
                    scenario_bs >>

\* the ESC key press up to open(file_path, 'w')
SaveOpen ==
    /\ UNCHANGED auxVars
    /\ pc = "events"
    /\ batch_n < MaxBatch
    /\ ~is_journal
    /\ batch_n' = batch_n + 1
    /\ last_event' = Press("KEY_ESC")
    /\ last_activity_time' = now
    /\ cursor_blink_on' = TRUE
    /\ last_blink_time' = now
    /\ content_changed_since_last_save' = TRUE
    /\ file' = Truncate(file)
    /\ pc' = "saving"
    /\ commit' = "none"
    /\ NoOutput
    /\ UNCHANGED << esVars, viewVars, appVars, is_journal, max_lines_on_screen,
                    monthly, webVars, scroll_offset, shift_pressed,
                    partial_refresh_count, now, last_hotkey, scenario_bs >>

\* f.write('\n'.join(lines) + '\n'), the end of the with block, the save
\* indicator and the return
SaveWrite ==
    /\ UNCHANGED auxVars
    /\ pc = "saving"
    /\ file' = WriteAt0(file, SavedText(lines))
    /\ write' = "exit"
    /\ last_writer' = "editor"
    /\ SetApp(ActivateSaveIndicator(AppOf, now))
    /\ pc' = "returned"
    /\ commit' = "none" /\ last_event' = NoEvent
    /\ drawn' = {} /\ indicator_text' = NoText /\ aggregation' = "none"
    /\ UNCHANGED << esVars, viewVars, is_journal, max_lines_on_screen, monthly,
                    web_pc, web_content, scroll_offset,
                    content_changed_since_last_save, shift_pressed,
                    last_activity_time, last_blink_time, cursor_blink_on,
                    partial_refresh_count, now, batch_n, last_hotkey,
                    scenario_bs >>

InitWeb == Constructed(File(<<"a", "b", " ", "c", "\n">>), FALSE, MaxScreenLines)

NextWeb ==
    \/ Run
    \/ \E ready \in BOOLEAN : PollInput(ready)
    \/ \E event \in WebEvents : ReadEvent(event, TRUE)
    \/ SaveOpen
    \/ SaveWrite
    \/ EndBatch
    \/ UpdateTimers(TRUE)
    \/ Render
    \/ \E new_content \in WebContents : WebOpen(new_content)
    \/ WebWrite

SpecWeb == InitWeb /\ [][NextWeb]_vars

-----------------------------------------------------------------------------
(* Scrolling: a document of three lines on panels of one row up to one row  *)
(* more than the other sessions have                                        *)

ScrollFiles == { File(<<"a", "\n", "b", "\n", "c", "\n">>) }
ScrollEvents == { Press(c) : c \in {"KEY_UP", "KEY_DOWN", "KEY_LEFT", "KEY_BACKSPACE"} }

InitScroll ==
    \E f \in ScrollFiles : \E m \in 1..(MaxScreenLines + 1) : Constructed(f, FALSE, m)

NextScroll ==
    \/ Run
    \/ \E ready \in BOOLEAN : PollInput(ready)
    \/ \E event \in ScrollEvents : ReadEvent(event, TRUE)
    \/ EndBatch
    \/ UpdateTimers(TRUE)
    \/ Render

SpecScroll == InitScroll /\ [][NextScroll]_vars

-----------------------------------------------------------------------------
(* Editing sessions on one file, one after the other: after the editor has *)
(* returned, AdaWriter.edit_project opens the same file again               *)

\* TextEditor(...).run(file_path, ...) once more; `lines` still holds the
\* document the session before has written
Reopen ==
    /\ pc = "returned"
    /\ pc' = "init"
    /\ commit' = "none" /\ last_event' = NoEvent
    /\ NoOutput
    /\ UNCHANGED << esVars, viewVars, appVars, envVars, webVars, auxVars,
                    scroll_offset, content_changed_since_last_save, shift_pressed,
                    last_activity_time, last_blink_time, cursor_blink_on,
                    partial_refresh_count, now, batch_n, last_hotkey, scenario_bs >>

NextRoundTrip ==
    \/ Run
    \/ \E ready \in BOOLEAN : PollInput(ready)
    \/ \E code \in { "KEY_ENTER", "KEY_BACKSPACE", "KEY_LEFT", "KEY_UP", "KEY_ESC" } :
           ReadEvent(Press(code), TRUE)
    \/ EndBatch
    \/ UpdateTimers(TRUE)
    \/ Render
    \/ Reopen

SpecRoundTrip == InitEdit /\ [][NextRoundTrip]_vars

-----------------------------------------------------------------------------
(* A session whose key events all arrive at its start: afterwards the loop *)
(* polls, time passes, and no key event arrives any more                   *)

\* one step of the loop; key events are read at time 0 only
QuietStep ==
    \/ \E ready \in BOOLEAN : PollInput(ready)
    \/ /\ now = 0
       /\ \E code \in { "KEY_ENTER", "KEY_F1", "KEY_ESC" } :
             \E storage_ok \in BOOLEAN : ReadEvent(Press(code), storage_ok)
    \/ EndBatch
    \/ \E storage_ok \in BOOLEAN : UpdateTimers(storage_ok)
    \/ Render

\* has_input(0.05) returns after 50 ms at the latest, so the loop has run
\* its timers and its rendering for the present time before the clock
\* reaches the next multiple of TickMs
QuietTick ==
    /\ ~(cursor_visible /\ now - last_activity_time > cursor_inactivity_timeout * 1000)
    /\ ~(word_count_active /\ now - word_count_timer > WORD_COUNT_DISPLAY_DURATION)
    /\ ~(time_display_active /\ now - time_display_timer > WORD_COUNT_DISPLAY_DURATION)
    /\ ~(save_indicator_active /\ now - save_indicator_timer > AUTO_SAVE_INDICATOR_DURATION)
    /\ ~(content_changed_since_last_save
           /\ now - last_activity_time > INACTIVITY_SAVE_TIMEOUT)
    /\ ~layout_changed /\ ~content_changed /\ ~timers_changed
    /\ partial_refresh_count < FULL_REFRESH_INTERVAL
    /\ Tick

NextQuiet ==
    \/ Run
    \/ QuietTick
    \/ QuietStep

\* the loop keeps running, and the poll of the keyboard takes time
SpecQuiet ==
    Init /\ [][NextQuiet]_vars /\ WF_vars(Run) /\ WF_vars(QuietStep) /\ SF_vars(QuietTick)

-----------------------------------------------------------------------------
(* The application around the editor: AdaWriter.run and its screens, and   *)
(* the DisplayManager they draw with, on real hardware. A step runs the    *)
(* application from one return of wait_for_direct_choice (or one key of    *)
(* the text input loop or of the editor) to the next wait.                 *)

\* the number of project files that show_projects_list finds
MaxFiles == 2

\* the variables of the editing loop and of the web server thread
coreVars == << esVars, viewVars, appVars, envVars, webVars, scroll_offset,
               content_changed_since_last_save, shift_pressed, last_activity_time,
               last_blink_time, cursor_blink_on, partial_refresh_count, now, pc,
               batch_n, last_event, commit, last_hotkey, scenario_bs, write,
               drawn, indicator_text, aggregation >>

\* DisplayManager.start: epd.init(), epd.display(buffer)
start(p) ==
    [p EXCEPT !.epd_mode = "full",
              !.transfers = @ \cup { << "display", "full" >> },
              !._is_sleeping = FALSE,
              !._current_mode = "fast"]

\* DisplayManager.display_image: a transfer is "full" (epd.Clear() and
\* epd.display) or "partial" (epd.display_Partial)
display_image(is_full_refresh, p) ==
    LET woken == IF p._is_sleeping
                 THEN [p EXCEPT !.epd_mode = "full", !._is_sleeping = FALSE,
                                !._current_mode = "full"]
                 ELSE p
    IN  IF is_full_refresh
        THEN LET q == IF woken._current_mode # "full"
                      THEN [woken EXCEPT !.epd_mode = "full", !._current_mode = "full"]
                      ELSE woken
             IN  [q EXCEPT !.transfers = @ \cup { << "full", q.epd_mode >> }]
        ELSE LET q == IF woken._current_mode # "fast"
                      THEN [woken EXCEPT !.epd_mode = "fast", !._current_mode = "fast"]
                      ELSE woken
             IN  [q EXCEPT !.transfers = @ \cup { << "partial", q.epd_mode >> }]

\* DisplayManager.sleep
sleep(p) ==
    IF ~p._is_sleeping
    THEN [p EXCEPT !.epd_mode = "sleep", !._is_sleeping = TRUE]
    ELSE p

\* AdaWriter.wait_for_direct_choice: "None" when SHUTDOWN_REQUESTED ends
\* its loop, KEY_Q on inactivity, the key when it is a valid one, and
\* "waiting" while it keeps polling
wait_for_direct_choice(valid_key_codes, key) ==
    IF shell.SHUTDOWN_REQUESTED THEN "None"
    ELSE IF shell.idle THEN "KEY_Q"
    ELSE IF key \in valid_key_codes THEN key
    ELSE "waiting"

\* handle_shutdown_signal: SIGTERM or SIGINT arrives
handle_shutdown_signal ==
    /\ ~shell.SHUTDOWN_REQUESTED
    /\ shell.pc # "shutdown"
    /\ shell' = [shell EXCEPT !.SHUTDOWN_REQUESTED = TRUE]
    /\ UNCHANGED << coreVars, last_save_time, panel, fs, http >>

\* no key press for more than INACTIVITY_TIMEOUT_SECONDS
InactivityTimeout ==
    /\ ~shell.idle
    /\ shell.pc \notin { "startup", "shutdown" }
    /\ shell' = [shell EXCEPT !.idle = TRUE]
    /\ UNCHANGED << coreVars, last_save_time, panel, fs, http >>

\* the start of the program and AdaWriter.run: the main menu and the
\* confirmation of Q; found: whether show_projects_list finds a project.
\* initiate_shutdown draws the shutdown image, puts the panel to sleep and
\* halts the system.
AppRun(key, found) ==
    /\ shell.pc \in { "startup", "run", "main_menu", "confirm_quit" }
    /\ LET choice == wait_for_direct_choice(
                         IF shell.pc = "main_menu"
                         THEN { "KEY_1", "KEY_2", "KEY_W", "KEY_Q" }
                         ELSE { "KEY_1", "KEY_2" }, key)
           initiate_shutdown == sleep(display_image(TRUE, panel))
       IN  CASE shell.pc = "startup" ->
                  /\ shell' = [shell EXCEPT !.pc = "run"]
                  /\ panel' = start(panel)
             [] shell.pc = "run" ->
                  IF shell.SHUTDOWN_REQUESTED \/ shell.idle
                  THEN /\ shell' = [shell EXCEPT !.pc = "shutdown"]
                       /\ panel' = initiate_shutdown
                  ELSE /\ shell' = [shell EXCEPT !.pc = "main_menu",
                                                 !.is_first_loop = FALSE]
                       /\ panel' = IF shell.is_first_loop THEN panel
                                   ELSE display_image(TRUE, panel)
             [] shell.pc = "main_menu" ->
                  /\ choice # "waiting"
                  /\ CASE choice = "KEY_1" ->
                            /\ shell' = [shell EXCEPT !.pc = "editor_journal"]
                            /\ panel' = display_image(TRUE, panel)
                       [] choice = "KEY_2" ->
                            /\ shell' = [shell EXCEPT !.pc = IF found THEN "projects"
                                                             ELSE "run",
                                                      !.selected_index = 0]
                            /\ panel' = display_image(~found, panel)
                       [] choice = "KEY_W" ->
                            /\ shell' = [shell EXCEPT !.pc = "wifi_menu"]
                            /\ panel' = display_image(TRUE, panel)
                       [] choice = "KEY_Q" ->
                            /\ shell' = [shell EXCEPT !.pc = "confirm_quit"]
                            /\ panel' = display_image(TRUE, panel)
                       [] OTHER ->
                            /\ shell' = [shell EXCEPT !.pc = "run"]
                            /\ panel' = panel
             [] OTHER ->
                  /\ choice # "waiting"
                  /\ IF choice = "KEY_1"
                     THEN /\ shell' = [shell EXCEPT !.pc = "shutdown"]
                          /\ panel' = initiate_shutdown
                     ELSE /\ shell' = [shell EXCEPT !.pc = "run"]
                          /\ panel' = panel
    /\ UNCHANGED << coreVars, last_save_time, fs, http >>

\* AdaWriter.show_projects_list with the confirmation of Delete and the
\* text input of New and Rename; found: whether a project is left after a
\* deletion. A return value of wait_for_direct_choice that no branch
\* handles ("None", KEY_Q) starts the while loop again with nothing changed.
show_projects_list(key, found) ==
    /\ shell.pc \in { "projects", "confirm_delete", "text_input" }
    /\ LET choice == wait_for_direct_choice(
                         IF shell.pc = "projects"
                         THEN { "KEY_UP", "KEY_DOWN", "KEY_ENTER", "KEY_ESC",
                                "KEY_R", "KEY_N", "KEY_DELETE" }
                         ELSE { "KEY_1", "KEY_2" }, key)
           fatal == sleep(display_image(TRUE, display_image(TRUE, panel)))
       IN  CASE shell.pc = "projects" ->
                  /\ choice # "waiting"
                  /\ CASE choice = "KEY_DOWN" ->
                            /\ shell' = [shell EXCEPT !.selected_index = (@ + 1) % MaxFiles]
                            /\ panel' = display_image(FALSE, panel)
                       [] choice = "KEY_UP" ->
                            /\ shell' = [shell EXCEPT !.selected_index =
                                                         (@ - 1 + MaxFiles) % MaxFiles]
                            /\ panel' = display_image(FALSE, panel)
                       [] choice = "KEY_ESC" ->
                            /\ shell' = [shell EXCEPT !.pc = "run"]
                            /\ panel' = panel
                       [] choice \in { "KEY_N", "KEY_R" } ->
                            /\ shell' = [shell EXCEPT !.pc = "text_input"]
                            /\ panel' = display_image(FALSE, display_image(TRUE, panel))
                       [] choice = "KEY_DELETE" ->
                            /\ shell' = [shell EXCEPT !.pc = "confirm_delete"]
                            /\ panel' = display_image(TRUE, panel)
                       [] choice = "KEY_ENTER" ->
                            /\ shell' = [shell EXCEPT !.pc = "editor_project"]
                            /\ panel' = display_image(TRUE, panel)
                       [] OTHER ->
                            /\ shell' = shell
                            /\ panel' = panel
             [] shell.pc = "confirm_delete" ->
                  /\ choice # "waiting"
                  /\ IF choice = "KEY_1"
                     THEN /\ shell' = [shell EXCEPT !.pc = IF found THEN "projects"
                                                           ELSE "run",
                                                    !.selected_index = 0]
                          /\ panel' = display_image(~found, display_image(TRUE, panel))
                     ELSE /\ shell' = [shell EXCEPT !.pc = "projects"]
                          /\ panel' = display_image(FALSE, panel)
             [] OTHER ->
                  \* _text_input_loop: Enter and ESC return, a character
                  \* key raises in _get_char_from_event (caught by run,
                  \* which shows the error and shuts down)
                  /\ key \in { "KEY_ENTER", "KEY_ESC", "KEY_BACKSPACE", "KEY_A" }
                  /\ CASE key \in { "KEY_ENTER", "KEY_ESC" } ->
                            /\ shell' = [shell EXCEPT !.pc = "projects", !.idle = FALSE,
                                                      !.selected_index = 0]
                            /\ panel' = display_image(FALSE, display_image(TRUE, panel))
                       [] key = "KEY_A" ->
                            /\ shell' = [shell EXCEPT !.pc = "shutdown", !.idle = FALSE]
                            /\ panel' = fatal
                       [] OTHER ->
                            /\ shell' = [shell EXCEPT !.idle = FALSE]
                            /\ panel' = display_image(FALSE, panel)
    /\ UNCHANGED << coreVars, last_save_time, fs, http >>

\* AdaWriter.show_wifi_menu with show_network_screen and
\* show_wifi_setup_screen; ok: whether the network is connected, networks
\* are found, the connection succeeds
show_wifi_menu(key, ok) ==
    /\ shell.pc \in { "wifi_menu", "network_screen", "wifi_setup", "wifi_password" }
    /\ LET choice == wait_for_direct_choice(
                         CASE shell.pc = "wifi_menu" -> { "KEY_1", "KEY_2", "KEY_ESC" }
                           [] shell.pc = "network_screen" -> { "KEY_ESC" }
                           [] OTHER -> { "KEY_ESC", "KEY_1" }, key)
           fatal == sleep(display_image(TRUE, display_image(TRUE, panel)))
       IN  CASE shell.pc = "wifi_menu" ->
                  /\ choice # "waiting"
                  /\ CASE choice = "KEY_1" ->
                            /\ shell' = [shell EXCEPT !.pc = IF ok THEN "network_screen"
                                                             ELSE "wifi_menu"]
                            /\ panel' = display_image(TRUE, display_image(TRUE, panel))
                       [] choice = "KEY_2" ->
                            /\ shell' = [shell EXCEPT !.pc = IF ok THEN "wifi_setup"
                                                             ELSE "wifi_menu"]
                            /\ panel' = display_image(TRUE, display_image(TRUE, panel))
                       [] choice = "KEY_ESC" ->
                            /\ shell' = [shell EXCEPT !.pc = "run"]
                            /\ panel' = panel
                       [] OTHER ->
                            /\ shell' = shell
                            /\ panel' = panel
             [] shell.pc = "network_screen" ->
                  /\ choice # "waiting"
                  /\ shell' = [shell EXCEPT !.pc = "wifi_menu"]
                  /\ panel' = display_image(TRUE, panel)
             [] shell.pc = "wifi_setup" ->
                  /\ choice # "waiting"
                  /\ CASE choice = "KEY_ESC" ->
                            /\ shell' = [shell EXCEPT !.pc = "wifi_menu"]
                            /\ panel' = display_image(TRUE, panel)
                       [] choice = "KEY_1" ->
                            /\ shell' = [shell EXCEPT !.pc = "wifi_password"]
                            /\ panel' = display_image(FALSE, display_image(TRUE, panel))
                       [] OTHER ->
                            /\ shell' = shell
                            /\ panel' = panel
             [] OTHER ->
                  \* _text_input_loop for the password
                  /\ key \in { "KEY_ENTER", "KEY_ESC", "KEY_BACKSPACE", "KEY_A" }
                  /\ CASE key = "KEY_ENTER" ->
                            /\ shell' = [shell EXCEPT !.pc = IF ok THEN "wifi_menu"
                                                             ELSE "wifi_setup",
                                                      !.idle = FALSE]
                            /\ panel' = display_image(TRUE, display_image(TRUE, panel))
                       [] key = "KEY_ESC" ->
                            /\ shell' = [shell EXCEPT !.pc = "wifi_setup", !.idle = FALSE]
                            /\ panel' = display_image(TRUE, panel)
                       [] key = "KEY_A" ->
                            /\ shell' = [shell EXCEPT !.pc = "shutdown", !.idle = FALSE]
                            /\ panel' = fatal
                       [] OTHER ->
                            /\ shell' = [shell EXCEPT !.idle = FALSE]
                            /\ panel' = display_image(FALSE, panel)
    /\ UNCHANGED << coreVars, last_save_time, fs, http >>

\* a key press in the editor opened from the main menu or from the
\* projects list (TextEditor._main_loop, which looks neither at
\* SHUTDOWN_REQUESTED nor at INACTIVITY_TIMEOUT_SECONDS): ESC returns, a
\* character key raises in _get_char_from_event
EditorSession(key) ==
    /\ shell.pc \in { "editor_journal", "editor_project" }
    /\ key \in { "KEY_ESC", "KEY_ENTER", "KEY_A" }
    /\ CASE key = "KEY_ESC" ->
              /\ shell' = [shell EXCEPT !.pc = IF @ = "editor_journal" THEN "run"
                                               ELSE "projects",
                                        !.idle = FALSE]
              /\ panel' = IF shell.pc = "editor_journal" THEN panel
                          ELSE display_image(FALSE, panel)
         [] key = "KEY_A" ->
              /\ shell' = [shell EXCEPT !.pc = "shutdown", !.idle = FALSE]
              /\ panel' = sleep(display_image(TRUE, display_image(TRUE, panel)))
         [] OTHER ->
              /\ shell' = [shell EXCEPT !.idle = FALSE]
              /\ panel' = display_image(TRUE, panel)
    /\ UNCHANGED << coreVars, last_save_time, fs, http >>

\* one step of the application, whatever the user does
ShellStep ==
    \E key \in { "none", "KEY_1", "KEY_2", "KEY_W", "KEY_Q", "KEY_ESC", "KEY_ENTER",
                 "KEY_DOWN", "KEY_UP", "KEY_N", "KEY_DELETE", "KEY_BACKSPACE",
                 "KEY_A" } :
        \/ \E found \in BOOLEAN : AppRun(key, found)
        \/ \E found \in BOOLEAN : show_projects_list(key, found)
        \/ \E ok \in BOOLEAN : show_wifi_menu(key, ok)
        \/ EditorSession(key)

NextShell ==
    \/ handle_shutdown_signal
    \/ InactivityTimeout
    \/ ShellStep

\* the application keeps running
SpecShell == Init /\ [][NextShell]_vars /\ WF_vars(ShellStep)

-----------------------------------------------------------------------------
(* The routes of web_server.py that take a filename. A path is the         *)
(* sequence of its components, a component the sequence of its characters; *)
(* BASE_DIR is /d, with the directories p (projects), a (archive) and      *)
(* t (trash), and next to them px and tx; every directory holds at most    *)
(* the one file f. A request records the files it has read, written, moved *)
(* or removed, each with the directory it is meant to lie in.              *)

\* os.path.abspath(os.path.join(directory, filename)), directory being a
\* directory of BASE_DIR
abspath(directory, filename) ==
    LET RECURSIVE norm(_, _)
        norm(done, rest) ==
            IF rest = <<>> THEN done
            ELSE IF Head(rest) = << ".", "." >>
            THEN norm(IF done = <<>> THEN done ELSE SubSeq(done, 1, Len(done) - 1),
                      Tail(rest))
            ELSE norm(Append(done, Head(rest)), Tail(rest))
    IN  norm(<<>>, << <<"d">>, directory >> \o filename)

\* str.startswith on the texts of two paths
startswith(path, prefix) ==
    LET RECURSIVE text(_)
        text(q) == IF q = <<>> THEN <<>> ELSE << "/" >> \o Head(q) \o text(Tail(q))
    IN  /\ Len(text(prefix)) <= Len(text(path))
        /\ SubSeq(text(path), 1, Len(text(prefix))) = text(prefix)

\* os.path.exists(path) for a file
exists(path) ==
    /\ Len(path) = 3 /\ path[1] = <<"d">> /\ path[3] = <<"f">>
    /\ path[2] \in DOMAIN fs
    /\ fs[path[2]] # "absent"

\* archive_file and delete_file: _move_file(filename, dest_dir); its
\* abort(403) is raised inside the try and caught by `except Exception`
_move_file(filename, dest_dir) ==
    /\ LET src_path == abspath(<<"p">>, filename)
           dst_path == abspath(dest_dir, filename)
           moved == startswith(src_path, << <<"d">>, <<"p">> >>) /\ exists(src_path)
       IN  /\ fs' = IF moved /\ dst_path # src_path
                    THEN [fs EXCEPT ![dst_path[2]] = fs[src_path[2]],
                                    ![src_path[2]] = "absent"]
                    ELSE fs
           /\ http' = [route |-> "move", base |-> <<"p">>, filename |-> filename,
                       status |-> "302",
                       touched |-> IF moved
                                   THEN { << src_path, <<"p">> >>, << dst_path, dest_dir >> }
                                   ELSE {}]
    /\ UNCHANGED << coreVars, last_save_time, shell, panel >>

\* restore_file: its abort(403) is raised outside the try
restore_file(source, filename) ==
    /\ LET src_path == abspath(source, filename)
           dest_path == abspath(<<"p">>, filename)
           allowed == startswith(src_path, << <<"d">>, source >>)
           moved == allowed /\ exists(src_path)
       IN  /\ fs' = IF moved /\ dest_path # src_path
                    THEN [fs EXCEPT ![dest_path[2]] = fs[src_path[2]],
                                    ![src_path[2]] = "absent"]
                    ELSE fs
           /\ http' = [route |-> "restore", base |-> source, filename |-> filename,
                       status |-> IF allowed THEN "302" ELSE "403",
                       touched |-> IF moved
                                   THEN { << src_path, source >>, << dest_path, <<"p">> >> }
                                   ELSE {}]
    /\ UNCHANGED << coreVars, last_save_time, shell, panel >>

\* edit_file: its abort(403) is caught by `except Exception`, which
\* redirects to the index
edit_file(method, filename) ==
    /\ LET file_path == abspath(<<"p">>, filename)
           allowed == startswith(file_path, << <<"d">>, <<"p">> >>)
           is_file == Len(file_path) = 3 /\ file_path[2] \in DOMAIN fs
                         /\ file_path[3] = <<"f">>
       IN  /\ fs' = IF allowed /\ method = "POST" /\ is_file
                    THEN [fs EXCEPT ![file_path[2]] = "new"]
                    ELSE fs
           /\ http' = [route |-> "edit", base |-> <<"p">>, filename |-> filename,
                       status |-> IF ~allowed THEN "302"
                                  ELSE IF method = "POST"
                                  THEN (IF is_file THEN "302" ELSE "404")
                                  ELSE (IF exists(file_path) THEN "200" ELSE "404"),
                       touched |-> IF allowed /\ (IF method = "POST" THEN is_file
                                                  ELSE exists(file_path))
                                   THEN { << file_path, <<"p">> >> }
                                   ELSE {}]
    /\ UNCHANGED << coreVars, last_save_time, shell, panel >>

\* delete_permanently: its abort(403) is caught by `except Exception`
delete_permanently(filename) ==
    /\ LET file_path == abspath(<<"t">>, filename)
           removed == startswith(file_path, << <<"d">>, <<"t">> >>) /\ exists(file_path)
       IN  /\ fs' = IF removed THEN [fs EXCEPT ![file_path[2]] = "absent"] ELSE fs
           /\ http' = [route |-> "delete_permanently", base |-> <<"t">>,
                       filename |-> filename, status |-> "302",
                       touched |-> IF removed THEN { << file_path, <<"t">> >> } ELSE {}]
    /\ UNCHANGED << coreVars, last_save_time, shell, panel >>

\* download_file; docx: format=docx with python-docx installed, where the
\* route opens file_path itself. Otherwise flask's send_from_directory
\* serves the file and answers a path that leaves the directory, or a
\* missing file, with NotFound; that and abort(403) are caught by
\* `except Exception`, which answers 500
download_file(filename, docx) ==
    /\ LET file_path == abspath(<<"p">>, filename)
           allowed == startswith(file_path, << <<"d">>, <<"p">> >>)
           served == /\ allowed /\ exists(file_path)
                     /\ (docx \/ \A i \in 1..Len(filename) : filename[i] # << ".", "." >>)
       IN  http' = [route |-> "download", base |-> <<"p">>, filename |-> filename,
                    status |-> IF served THEN "200"
                               ELSE IF allowed /\ docx THEN "404" ELSE "500",
                    touched |-> IF served THEN { << file_path, <<"p">> >> } ELSE {}]
    /\ UNCHANGED << coreVars, last_save_time, shell, panel, fs >>

NextRoutes ==
    \E filename \in { << <<"f">> >>,
                      << << ".", "." >>, <<"p", "x">>, <<"f">> >>,
                      << << ".", "." >>, <<"t", "x">>, <<"f">> >>,
                      << << ".", "." >>, <<"a">>, <<"f">> >> } :
        \/ \E dest_dir \in { <<"a">>, <<"t">> } : _move_file(filename, dest_dir)
        \/ \E source \in { <<"a">>, <<"t">> } : restore_file(source, filename)
        \/ \E method \in { "GET", "POST" } : edit_file(method, filename)
        \/ delete_permanently(filename)
        \/ \E docx \in BOOLEAN : download_file(filename, docx)

SpecRoutes == Init /\ [][NextRoutes]_vars

-----------------------------------------------------------------------------
(* The editor of ada_writer_v1.4.3.py (EPDDisplay.edit_project), on a       *)
(* document that is not a journal: text is appended to and deleted from    *)
(* the end of the last line, ESC saves and leaves, and the document is     *)
(* saved every AUTO_SAVE_INTERVAL whether it was changed or not            *)

\* the interval of the autosave (30000 in the source)
AUTO_SAVE_INTERVAL == 6000
V143_AUTO_SAVE_INDICATOR_DURATION == 1500
V143_WORD_COUNT_DISPLAY_DURATION == 2000
V143_INACTIVITY_TIMEOUT_SECONDS == 10 * 60

V143Keys == { "KEY_ENTER", "KEY_BACKSPACE", "KEY_A", "KEY_ESC" }
V143Pcs == { "v143_init", "v143_poll", "v143_events", "v143_timers",
             "v143_returned", "v143_shutdown" }

\* f.write('\n'.join(lines))
V143SavedText(ls) == join(ls)

\* edit_project up to the initial full refresh
V143Open ==
    /\ pc = "v143_init"
    /\ ~is_journal
    /\ LET lines_from_file == IF file.exists THEN splitlines(file.content, <<>>)
                              ELSE << <<>> >>
       IN  lines' = IF lines_from_file = <<>> THEN << <<>> >> ELSE lines_from_file
    /\ shift_pressed' = FALSE
    /\ last_save_time' = now
    /\ UNCHANGED << shell, panel, fs, http >>
    /\ pc' = "v143_poll" /\ batch_n' = 0
    /\ commit' = "full" /\ drawn' = WholeScreen
    /\ indicator_text' = NoText
    /\ write' = "none" /\ aggregation' = "none"
    /\ last_event' = NoEvent
    /\ UNCHANGED << cursor_x, cursor_y, cursor_visible, layout_changed,
                    content_changed, timers_changed, viewVars, appVars, envVars,
                    webVars, scroll_offset, content_changed_since_last_save,
                    last_activity_time, last_blink_time, cursor_blink_on,
                    partial_refresh_count, now, last_hotkey, scenario_bs >>

\* time passes between two polls of the keyboard
V143Tick ==
    /\ pc = "v143_poll"
    /\ now + TickMs <= MaxTime
    /\ now' = now + TickMs
    /\ commit' = "none" /\ last_event' = NoEvent
    /\ NoOutput
    /\ UNCHANGED << esVars, viewVars, appVars, envVars, webVars, auxVars,
                    scroll_offset, content_changed_since_last_save, shift_pressed,
                    last_activity_time, last_blink_time, cursor_blink_on,
                    partial_refresh_count, pc, batch_n, last_hotkey, scenario_bs >>

\* the head of the while loop: the inactivity check and select.select
V143Poll(ready) ==
    /\ pc = "v143_poll"
    /\ pc' = IF now - last_activity_time > V143_INACTIVITY_TIMEOUT_SECONDS * 1000
             THEN "v143_shutdown"
             ELSE IF ready THEN "v143_events" ELSE "v143_timers"
    /\ batch_n' = 0
    /\ commit' = "none" /\ last_event' = NoEvent
    /\ NoOutput
    /\ UNCHANGED << esVars, viewVars, appVars, envVars, webVars, auxVars,
                    scroll_offset, content_changed_since_last_save, shift_pressed,
                    last_activity_time, last_blink_time, cursor_blink_on,
                    partial_refresh_count, now, last_hotkey, scenario_bs >>

\* one key-down event of keyboard.read(); storage_ok: whether
\* open(file_path, 'w') succeeds, should the key be ESC
V143Key(code, storage_ok) ==
    /\ pc = "v143_events"
    /\ batch_n < MaxBatch
    /\ code = "KEY_ENTER" => Len(lines) < MaxLines
    /\ code = "KEY_A" => Len(lines[Len(lines)]) < MaxLineLen
    /\ batch_n' = batch_n + 1
    /\ last_event' = Press(code)
    /\ last_activity_time' = now
    /\ commit' = "none" /\ drawn' = {} /\ indicator_text' = NoText
    /\ aggregation' = "none"
    /\ lines' = LET n == Len(lines)
                 IN  CASE code = "KEY_ENTER" -> Append(lines, <<>>)
                       [] code = "KEY_BACKSPACE" ->
                            IF lines[n] # <<>>
                            THEN [lines EXCEPT ![n] = SubSeq(lines[n], 1, Len(lines[n]) - 1)]
                            ELSE IF n > 1 THEN SubSeq(lines, 1, n - 1)
                            ELSE lines
                       [] code = "KEY_A" ->
                            [lines EXCEPT ![n] = Append(lines[n],
                                                        IF shift_pressed THEN "A" ELSE "a")]
                       [] OTHER -> lines
    /\ IF code = "KEY_ESC"
       THEN /\ pc' = "v143_returned"
            \* an IOError is caught and shown as a message
            /\ file' = IF storage_ok THEN File(V143SavedText(lines)) ELSE file
            /\ write' = IF storage_ok THEN "exit" ELSE "failed"
            /\ last_writer' = IF storage_ok THEN "editor" ELSE last_writer
       ELSE /\ pc' = "v143_events"
            /\ write' = "none"
            /\ UNCHANGED << file, last_writer >>
    /\ UNCHANGED << cursor_x, cursor_y, cursor_visible, layout_changed,
                    content_changed, timers_changed, viewVars, appVars,
                    is_journal, max_lines_on_screen, monthly, web_pc, web_content,
                    auxVars, scroll_offset, content_changed_since_last_save,
                    shift_pressed, last_blink_time, cursor_blink_on,
                    partial_refresh_count, now, last_hotkey, scenario_bs >>

\* keyboard.read() is exhausted
V143EndBatch ==
    /\ pc = "v143_events"
    /\ pc' = "v143_timers"
    /\ commit' = "none" /\ last_event' = NoEvent
    /\ NoOutput
    /\ UNCHANGED << esVars, viewVars, appVars, envVars, webVars, auxVars,
                    scroll_offset, content_changed_since_last_save, shift_pressed,
                    last_activity_time, last_blink_time, cursor_blink_on,
                    partial_refresh_count, now, batch_n, last_hotkey, scenario_bs >>

\* "Auto-save and status indicator logic" and the partial display update;
\* storage_ok: whether open(file_path, 'w') succeeds, should the autosave
\* be due
V143Timers(storage_ok) ==
    /\ pc = "v143_timers"
    /\ LET current_time == now
           due   == current_time - last_save_time > AUTO_SAVE_INTERVAL
           saved == due /\ storage_ok
           app1  == IF saved THEN ActivateSaveIndicator(AppOf, current_time) ELSE AppOf
           sv    == app1.save_indicator_active /\
                    (current_time - app1.save_indicator_timer
                        > V143_AUTO_SAVE_INDICATOR_DURATION)
           wc    == app1.word_count_active /\
                    (current_time - app1.word_count_timer
                        > V143_WORD_COUNT_DISPLAY_DURATION)
           td    == app1.time_display_active /\
                    (current_time - app1.time_display_timer
                        > V143_WORD_COUNT_DISPLAY_DURATION)
       IN  /\ file' = IF saved THEN File(V143SavedText(lines)) ELSE file
           /\ last_save_time' = IF saved THEN current_time ELSE last_save_time
           /\ last_writer' = IF saved THEN "editor" ELSE last_writer
           \* an IOError is caught and printed
           /\ write' = IF saved THEN "autosave" ELSE IF due THEN "failed" ELSE "none"
           /\ SetApp([app1 EXCEPT !.save_indicator_active = IF sv THEN FALSE ELSE @,
                                  !.word_count_active = IF wc THEN FALSE ELSE @,
                                  !.time_display_active = IF td THEN FALSE ELSE @])
           /\ commit' = IF saved \/ sv \/ wc \/ td \/ batch_n > 0
                        THEN "partial" ELSE "none"
           /\ drawn' = IF saved \/ sv \/ wc \/ td \/ batch_n > 0
                       THEN WholeScreen ELSE {}
    /\ indicator_text' = NoText
    /\ aggregation' = "none"
    /\ UNCHANGED << shell, panel, fs, http >>
    /\ pc' = "v143_poll"
    /\ last_event' = NoEvent
    /\ UNCHANGED << esVars, viewVars, is_journal, max_lines_on_screen, monthly,
                    web_pc, web_content, scroll_offset,
                    content_changed_since_last_save, shift_pressed,
                    last_activity_time, last_blink_time, cursor_blink_on,
                    partial_refresh_count, now, batch_n, last_hotkey, scenario_bs >>

\* the document is opened by the editor of ada_writer.py or by the editor
\* of ada_writer_v1.4.3.py
InitSaves ==
    \E f \in Files :
        /\ Fresh
        /\ lines = << <<>> >> /\ cursor_x = 0 /\ cursor_y = 0
        /\ file = f /\ is_journal = FALSE /\ max_lines_on_screen = MaxScreenLines
        /\ monthly = NoFile
        /\ pc \in { "init", "v143_init" }

NextSaves ==
    \/ Run
    \/ Tick
    \/ \E ready \in BOOLEAN : PollInput(ready)
    \/ \E event \in LiveEvents : \E storage_ok \in BOOLEAN : ReadEvent(event, storage_ok)
    \/ EndBatch
    \/ \E storage_ok \in BOOLEAN : UpdateTimers(storage_ok)
    \/ Render
    \/ V143Open
    \/ V143Tick
    \/ \E ready \in BOOLEAN : V143Poll(ready)
    \/ \E code \in V143Keys : \E storage_ok \in BOOLEAN : V143Key(code, storage_ok)
    \/ V143EndBatch
    \/ \E storage_ok \in BOOLEAN : V143Timers(storage_ok)

SpecSaves == InitSaves /\ [][NextSaves]_vars

-----------------------------------------------------------------------------
(* The scenario document of test_visuals.py (02_simple_text) *)

ScenarioEvents == { Press("KEY_LEFT"), Press("KEY_BACKSPACE") }

InitScenario == Constructed(File(Hello \o << "\n" >>), FALSE, MaxScreenLines)

NextScenario ==
    \/ Run
    \/ PollInput(TRUE)
    \/ \E event \in ScenarioEvents : ReadEvent(event, TRUE)
    \/ EndBatch
    \/ UpdateTimers(TRUE)
    \/ Render

SpecScenario == InitScenario /\ [][NextScenario]_vars

-----------------------------------------------------------------------------
(* The line wrapper and the coordinate mapper on enumerated documents *)

Alphabet == { "a", " " }
Texts(n) == UNION { [1..k -> Alphabet] : k \in 0..n }
Docs == UNION { [1..k -> Texts(MaxLineLen)] : k \in 1..MaxDocLines }

InitWrap ==
    \E doc \in Docs :
      \E y \in 0..(Len(doc) - 1) :
        \E x \in 0..Len(doc[y + 1]) :
            /\ Fresh
            /\ lines = doc /\ cursor_y = y /\ cursor_x = x
            /\ file = NoFile /\ is_journal = FALSE /\ monthly = NoFile
            /\ max_lines_on_screen = MaxScreenLines
            /\ pc = "wrap"

\* what the loop computes before it draws: the wrapped lines and the
\* display position of the cursor
WrapStep ==
    /\ UNCHANGED auxVars
    /\ pc = "wrap"
    /\ LET w == _get_wrapped_lines(lines)
       IN  /\ display_lines' = w.dl
           /\ source_line_map' = w.map
           /\ cursor_display_pos' =
                  _calculate_cursor_on_display(w.dl, w.map, cursor_y, cursor_x)
    /\ pc' = "wrapped"
    /\ UNCHANGED << esVars, appVars, envVars, scroll_offset,
                    content_changed_since_last_save, shift_pressed,
                    last_activity_time, last_blink_time, cursor_blink_on,
                    partial_refresh_count, now, batch_n,
                    last_event, commit, last_hotkey, scenario_bs,
                    write, drawn, indicator_text, aggregation, webVars >>

NextWrap == WrapStep

SpecWrap == InitWrap /\ [][NextWrap]_vars

-----------------------------------------------------------------------------
(* The coordinate mapper on arbitrary arguments: display lines with a map   *)
(* of any entries, and a logical line index of any value                    *)

MaxRows == 2
Rows == UNION { [1..k -> { <<>>, <<"a">>, <<"a", "a">> }] : k \in 0..MaxRows }
LineIndexes == (-1)..(MaxRows + 1)

InitMapper ==
    \E dl \in Rows :
      \E map \in [1..Len(dl) -> 0..MaxRows] :
        \E y \in LineIndexes :
          \E x \in 0..2 :
            /\ FreshState
            /\ display_lines = dl /\ source_line_map = map
            /\ lines = << <<>> >> /\ cursor_y = y /\ cursor_x = x
            /\ file = NoFile /\ is_journal = FALSE /\ monthly = NoFile
            /\ max_lines_on_screen = MaxScreenLines
            /\ pc = "map"

\* one call of the mapper
MapStep ==
    /\ UNCHANGED auxVars
    /\ pc = "map"
    /\ cursor_display_pos' =
           _calculate_cursor_on_display(display_lines, source_line_map,
                                        cursor_y, cursor_x)
    /\ pc' = "mapped"
    /\ UNCHANGED << esVars, appVars, envVars, scroll_offset,
                    display_lines, source_line_map,
                    content_changed_since_last_save, shift_pressed,
                    last_activity_time, last_blink_time, cursor_blink_on,
                    partial_refresh_count, now, batch_n,
                    last_event, commit, last_hotkey, scenario_bs,
                    write, drawn, indicator_text, aggregation, webVars >>

NextMapper == MapStep

SpecMapper == InitMapper /\ [][NextMapper]_vars

-----------------------------------------------------------------------------
(* Properties *)

\* the session is in the loop or has left it (a document is loaded)
Loaded == pc \in {"poll", "events", "timers", "render", "returned", "crashed"}

\* C1: after any sequence of key events, from any loaded document, the
\* document has at least one line, cursor_y indexes a line and cursor_x lies
\* between 0 and the length of that line.
C1_DocumentInvariant ==
    Loaded => /\ Len(lines) >= 1
              /\ 0 <= cursor_y /\ cursor_y < Len(lines)
              /\ 0 <= cursor_x /\ cursor_x <= Len(lines[cursor_y + 1])

\* a Backspace at column 0 has joined two lines, after another key of the batch
C1_Witness ==
    /\ last_event = Press("KEY_BACKSPACE") /\ batch_n = 2
    /\ layout_changed /\ cursor_x > 0 /\ Len(lines) = 1

\* the display lines wrapped from logical line y (0-based)
Segments(y) ==
    LET rows == { r \in 1..Len(source_line_map) : source_line_map[r] = y }
        first == CHOOSE r \in rows : \A q \in rows : r <= q
    IN  [k \in 1..Cardinality(rows) |-> display_lines[first + k - 1]]

RECURSIVE JoinWithSpaces(_)
\* the segments concatenated, one space reinserted at each wrap point
JoinWithSpaces(segs) ==
    IF Len(segs) = 1 THEN segs[1]
    ELSE segs[1] \o << " " >> \o JoinWithSpaces(Tail(segs))

\* no word of the line is wider than the text area
NoWideWord(line) ==
    \A i \in 1..Len(split(line, <<>>)) : getbbox2(split(line, <<>>)[i]) <= max_width

\* the last display row (0-based) wrapped from logical line y
LastRow(y) == CHOOSE r \in 0..(Len(source_line_map) - 1) :
                  /\ source_line_map[r + 1] = y
                  /\ \A q \in 0..(Len(source_line_map) - 1) :
                        source_line_map[q + 1] = y => q <= r

\* C2: round trip of the coordinate mapper: mapping a valid logical cursor
\* to its display position and back returns the same (line, col), except
\* that the end of a line resolves to the end of its last wrapped segment.
C2_RoundTrip ==
    pc = "wrapped" =>
        LET row  == cursor_display_pos[1]
            col  == cursor_display_pos[2]
            back == display_to_logical(display_lines, source_line_map, row, col)
        IN  \/ back = << cursor_y, cursor_x >>
            \/ /\ cursor_x = Len(lines[cursor_y + 1])
               /\ row = LastRow(cursor_y)
               /\ col = Len(display_lines[row + 1])

\* C3: the wrapper never drops or duplicates characters: for a logical line
\* with no word wider than max_width, its display lines joined with one
\* space per wrap point are the logical line.
C3_WrapPreservesText ==
    pc = "wrapped" =>
        \A y \in 0..(Len(lines) - 1) :
            NoWideWord(lines[y + 1]) => JoinWithSpaces(Segments(y)) = lines[y + 1]

\* C4 as stated: every key event that sets layout_changed is followed by a
\* full repaint in its loop iteration: no iteration ends, and the editor
\* does not return, with the layout change still pending.
C4_LayoutChangeAlwaysRepainted ==
    pc \in {"poll", "returned"} => ~layout_changed

\* C4: no input is polled while a layout change is pending, and the
\* rendering step of an iteration with a pending layout change issues a full
\* repaint.
C4_FullRepaintBeforeNextPoll ==
    /\ [](pc = "poll" => ~layout_changed)
    /\ [][layout_changed /\ pc' = "poll" => commit' = "full" /\ ~layout_changed']_vars

\* the rendering step is reached after Enter or a joining Backspace
C4_Witness == pc = "render" /\ layout_changed /\ last_hotkey = "none"

\* C5: a full repaint sets partial_refresh_count to 0, a partial repaint
\* adds exactly 1 to it, and no other step changes it.
C5_CountFollowsCommits ==
    [][/\ commit' = "full" => partial_refresh_count' = 0
       /\ commit' = "partial" => partial_refresh_count' = partial_refresh_count + 1
       /\ commit' = "none" => partial_refresh_count' = partial_refresh_count]_vars

\* the count has reached the interval through partial repaints
C5_Witness == commit = "partial" /\ partial_refresh_count = FULL_REFRESH_INTERVAL

\* C6: after any sequence of F1 and F2 presses at most one of the word-count
\* and clock indicators is active, it is the one triggered most recently,
\* and the text displayed is that of the most recently pressed hotkey.
C6_HotkeysExclusive ==
    /\ ~(word_count_active /\ time_display_active)
    /\ last_hotkey = "KEY_F1" /\ (word_count_active \/ time_display_active)
         => /\ word_count_active
            /\ _get_active_indicator_text(AppOf, now) = current_word_count_text
    /\ last_hotkey = "KEY_F2" /\ (word_count_active \/ time_display_active)
         => /\ time_display_active
            /\ _get_active_indicator_text(AppOf, now) = current_time_text

\* C7: scroll_offset is never negative, at editor open and after every
\* scroll adjustment.
C7_ScrollNonNegative == scroll_offset >= 0

\* a new document opened at offset 0: the adjustment has moved the viewport
C7_Witness ==
    /\ pc = "poll" /\ batch_n > 0 /\ commit # "none"
    /\ file = NoFile /\ scroll_offset > 0

\* line s without its i-th character (1-based)
WithoutChar(s, i) ==
    [k \in 1..(Len(s) - 1) |-> IF k < i THEN s[k] ELSE s[k + 1]]

\* the lines with line y (0-based, y > 0) appended to line y - 1
Joined(ls, y) ==
    [k \in 1..(Len(ls) - 1) |->
        IF k < y THEN ls[k] ELSE IF k = y THEN ls[y] \o ls[y + 1] ELSE ls[k + 1]]

\* this step handles a press of the key `code`
Handles(code) ==
    pc = "events" /\ batch_n' = batch_n + 1 /\ last_event' = Press(code)

\* C8: Backspace has three cases: with cursor_x > 0 it deletes the character
\* before the cursor, decrements cursor_x and leaves layout_changed alone;
\* at column 0 of a line other than the first it appends the line to the
\* previous one, removes it, moves the cursor to the join point and sets
\* layout_changed; at (0,0) it changes neither lines nor cursor.
C8_BackspaceCases ==
    [][Handles("KEY_BACKSPACE") =>
         IF cursor_x > 0
         THEN /\ lines' = [lines EXCEPT ![cursor_y + 1] = WithoutChar(@, cursor_x)]
              /\ cursor_x' = cursor_x - 1 /\ cursor_y' = cursor_y
              /\ layout_changed' = layout_changed
         ELSE IF cursor_y > 0
         THEN /\ lines' = Joined(lines, cursor_y)
              /\ cursor_y' = cursor_y - 1 /\ cursor_x' = Len(lines[cursor_y])
              /\ layout_changed'
         ELSE /\ lines' = lines /\ cursor_x' = 0 /\ cursor_y' = 0
              /\ layout_changed' = layout_changed]_vars

\* a Backspace has joined a line onto a non-empty previous line
C8_Witness ==
    /\ last_event = Press("KEY_BACKSPACE") /\ batch_n = 1
    /\ layout_changed /\ cursor_x > 0 /\ cursor_x < Len(lines[cursor_y + 1])

\* C9 as stated: from ["Hello, world."] with the cursor at (0,7), seven
\* consecutive Backspace presses leave [""] with the cursor at (0,0).
C9_SevenBackspacesEmpty ==
    scenario_bs = 7 => lines = << <<>> >> /\ cursor_x = 0 /\ cursor_y = 0

\* C9: from ["Hello, world."] with the cursor at (0,7), seven consecutive
\* Backspace presses leave ["world."] with the cursor at (0,0).
C9_SevenBackspacesWorld ==
    scenario_bs = 7 =>
        lines = << <<"w","o","r","l","d",".">> >> /\ cursor_x = 0 /\ cursor_y = 0

\* the seventh Backspace of the scenario has been handled
C9_Witness == scenario_bs = 7 /\ last_event = Press("KEY_BACKSPACE")

\* the lines with line y (0-based) split at column x
SplitAt(ls, y, x) ==
    [k \in 1..(Len(ls) + 1) |->
        IF k < y + 1 THEN ls[k]
        ELSE IF k = y + 1 THEN SubSeq(ls[y + 1], 1, x)
        ELSE IF k = y + 2 THEN SubSeq(ls[y + 1], x + 1, Len(ls[y + 1]))
        ELSE ls[k - 1]]

\* the editor state of the example: "abcdef" with the cursor at (0,3)
AbcdefAt3 ==
    [lines |-> << <<"a","b","c","d","e","f">> >>, cursor_x |-> 3, cursor_y |-> 0,
     cursor_visible |-> TRUE, layout_changed |-> FALSE,
     content_changed |-> FALSE, timers_changed |-> FALSE]

SingleSpaced(line) ==
    /\ line # <<>> /\ line[1] # " " /\ line[Len(line)] # " "
    /\ \A i \in 1..(Len(line) - 1) : ~(line[i] = " " /\ line[i + 1] = " ")

RECURSIVE Greedy(_, _, _)
\* greedy filling: row is the display line being filled (its words joined
\* by single spaces); a word is kept on it exactly when the row, a space and
\* the word measure at most mw, otherwise the row is flushed and the word
\* starts the next one
Greedy(mw, words, row) ==
    IF words = <<>> THEN << row >>
    ELSE LET word == Head(words)
             kept == IF row = <<>> THEN word ELSE row \o << " " >> \o word
         IN  IF getbbox2(kept) <= mw
             THEN Greedy(mw, Tail(words), kept)
             ELSE << row >> \o Greedy(mw, Tail(words), word)

AbcdeFghijKlmno ==
    << <<"a","b","c","d","e"," ","f","g","h","i","j"," ","k","l","m","n","o">> >>

\* C11: greedy wrapping: the display lines of a logical line of
\* single-space-separated words are those of greedy filling (a word stays on
\* the current display line exactly when line, space and word fit
\* max_width, otherwise the line is flushed and the word starts a new one);
\* on a text area 10 characters wide "abcde fghij klmno" wraps to
\* ["abcde", "fghij", "klmno"], all mapped to logical line 0.
C11_GreedyWrap ==
    /\ pc = "wrapped" =>
          \A y \in 0..(Len(lines) - 1) :
             SingleSpaced(lines[y + 1]) =>
                Segments(y) = Greedy(max_width, split(lines[y + 1], <<>>), <<>>)
    /\ WrapFromAt(10, AbcdeFghijKlmno, 0) =
          [dl  |-> << <<"a","b","c","d","e">>, <<"f","g","h","i","j">>,
                      <<"k","l","m","n","o">> >>,
           map |-> << 0, 0, 0 >>]

\* a line of two words was wrapped because the second did not fit
C11_Witness ==
    /\ pc = "wrapped" /\ SingleSpaced(lines[1])
    /\ Len(split(lines[1], <<>>)) = 2 /\ Len(Segments(0)) = 2
    /\ Segments(0)[1] # <<>>

\* the lines a file gives when it is read back
ReadBack(f) == LoadDocument(f, FALSE).lines

\* C12: exit is flush-then-return: when the editor has returned because of
\* ESC, the file holds the current lines, written by the step that returned;
\* these are the lines as every key event before the ESC left them, those of
\* the same poll batch included.
C12_ExitFlushesDocument ==
    /\ [](pc = "returned" =>
             write = "exit" /\ file.exists /\ ReadBack(file) = lines)
    /\ [][pc' = "returned" =>
             /\ last_event' = Press("KEY_ESC")
             /\ lines' = lines
             /\ file'.exists /\ ReadBack(file') = lines]_vars

\* ESC was read right after an Enter of the same batch
C12_Witness ==
    /\ pc = "returned" /\ batch_n = 2 /\ layout_changed
    /\ Len(lines) = 2 /\ file.exists

\* C14: a storage error while saving is non-fatal: after a failed write the
\* editor keeps running with the document and the cursor unchanged and the
\* change still counted as unsaved.
C14_SaveErrorNonFatal ==
    [][write' = "failed" =>
          /\ pc' \in {"poll", "events", "timers", "render"}
          /\ lines' = lines /\ cursor_x' = cursor_x /\ cursor_y' = cursor_y
          /\ content_changed_since_last_save']_vars

\* C15: a storage error on open is recoverable: opened on a file that
\* cannot be read, the session starts in the loop with the document [""]
\* and the cursor at (0,0), and a later save creates the file with the
\* document.
C15_MissingFileOpensEmpty ==
    /\ [][pc = "init" /\ ~file.exists =>
             /\ pc' = "poll"
             /\ lines' = << <<>> >> /\ cursor_x' = 0 /\ cursor_y' = 0]_vars
    /\ [][~file.exists /\ write' \in {"exit", "inactivity"} =>
             file'.exists /\ ReadBack(file') = lines]_vars

\* the session has started on a missing file
C15_Witness ==
    /\ ~file.exists /\ pc = "poll" /\ commit = "full" /\ batch_n = 0
    /\ lines = << <<>> >> /\ cursor_x = 0 /\ cursor_y = 0

\* a poll begins with unsaved changes and no key event for longer than
\* INACTIVITY_SAVE_TIMEOUT
IdleUnsaved ==
    /\ pc = "poll" /\ content_changed_since_last_save
    /\ now - last_activity_time > INACTIVITY_SAVE_TIMEOUT

RowNeighbour(by) ==
    LET w      == _get_wrapped_lines(lines)
        pos    == _calculate_cursor_on_display(w.dl, w.map, cursor_y, cursor_x)
        target == pos[1] + by
    IN  IF 0 <= target /\ target < Len(w.dl)
        THEN display_to_logical(w.dl, w.map, target, pos[2])
        ELSE << cursor_y, cursor_x >>

\* C16: Up and Down move the cursor by exactly one display row when such a
\* row exists, also between the wrapped segments of one logical line, and
\* keep the display column, clamped to the length of the target display
\* line: the new position is display_to_logical(row -/+ 1, display column).
C16_VerticalByDisplayRow ==
    [][/\ Handles("KEY_UP") => << cursor_y', cursor_x' >> = RowNeighbour(-1)
       /\ Handles("KEY_DOWN") => << cursor_y', cursor_x' >> = RowNeighbour(1)]_vars

\* the margins of the dead zone for m visible rows: 0.3 m and 0.7 m rounded
\* to integers, at least 1 apart
TopMargin(m) == (3 * m + 5) \div 10
BottomMargin(m) == Max(TopMargin(m) + 1, (7 * m + 5) \div 10)

\* the scroll offset the typewriter policy gives
TypewriterScroll(so, row, m) ==
    IF row < so + TopMargin(m) THEN Max(0, row - TopMargin(m))
    ELSE IF row >= so + BottomMargin(m) - 1 THEN Max(0, row - BottomMargin(m) + 2)
    ELSE so

\* the display row of the cursor
CursorRow ==
    LET w == _get_wrapped_lines(lines)
    IN  _calculate_cursor_on_display(w.dl, w.map, cursor_y, cursor_x)[1]

\* C17: the scroll controller follows the typewriter dead-zone policy: a
\* rendering step sets scroll_offset to max(0, row - top_margin) when the
\* cursor row is above scroll_offset + top_margin, to
\* max(0, row - bottom_margin + 2) when it is at or below
\* scroll_offset + bottom_margin - 1, and leaves it unchanged otherwise.
C17_TypewriterScroll ==
    [][pc = "render" /\ commit' # "none" =>
          scroll_offset' = TypewriterScroll(scroll_offset, CursorRow,
                                            max_lines_on_screen)]_vars

\* the two repaints of the rule, as the flags and the count call for them
FullDue == layout_changed \/ partial_refresh_count >= FULL_REFRESH_INTERVAL
PartialDue == ~FullDue /\ (content_changed \/ timers_changed)

TimerChecks == pc' = "render" \/ write' = "inactivity"

\* C19: ordering within one iteration: the timer-driven checks (cursor hide,
\* blink, indicator expiry, inactivity save) are evaluated only when the
\* batch is exhausted, no key event is applied between them and the end of
\* the iteration, and the inactivity save and the repaint see the document
\* as the last event of the batch left it.
C19_TimersAfterEvents ==
    /\ [][TimerChecks => pc = "timers" /\ last_event' = NoEvent]_vars
    /\ [][pc' = "timers" =>
             \/ pc = "poll"
             \/ pc = "events" /\ last_event' = NoEvent /\ batch_n' = batch_n]_vars
    /\ [][(pc \in {"timers", "render"}) =>
             /\ lines' = lines /\ cursor_x' = cursor_x /\ cursor_y' = cursor_y
             /\ pc' # "events"]_vars
    /\ [][write' = "inactivity" => ReadBack(file') = lines]_vars

\* the timer checks run after a batch of two events that changed the document
C19_Witness ==
    /\ pc = "render" /\ batch_n = 2 /\ layout_changed /\ Len(lines) = 2

\* the indicators in effect at time now: active and not expired
WordCountShowing ==
    word_count_active /\ now - word_count_timer <= WORD_COUNT_DISPLAY_DURATION
ClockShowing ==
    time_display_active /\ now - time_display_timer <= WORD_COUNT_DISPLAY_DURATION
SaveShowing ==
    save_indicator_active /\ now - save_indicator_timer <= AUTO_SAVE_INDICATOR_DURATION

-----------------------------------------------------------------------------
\* an indicator is still active although more than its duration has elapsed
WordCountExpired ==
    word_count_active /\ now - word_count_timer > WORD_COUNT_DISPLAY_DURATION
ClockExpired ==
    time_display_active /\ now - time_display_timer > WORD_COUNT_DISPLAY_DURATION
SaveExpired ==
    save_indicator_active /\ now - save_indicator_timer > AUTO_SAVE_INDICATOR_DURATION
AnyExpired == WordCountExpired \/ ClockExpired \/ SaveExpired

-----------------------------------------------------------------------------
\* C22: for a journal document every save of the daily file, on exit and on
\* inactivity alike, runs the monthly aggregation after the daily file has
\* been written, so that the monthly file holds the content just saved.
C22_EverySaveAggregates ==
    [][(is_journal /\ write' \in {"exit", "inactivity"}) =>
          /\ aggregation' # "none"
          /\ aggregation' = "done" =>
                monthly' = File(strip(SavedText(lines) \o << "\n", "\n" >>))]_vars

-----------------------------------------------------------------------------
\* C23: the web server thread and the editing loop share only the file: no
\* step of the server changes the lines or the cursor of the editor, and
\* once an editor save and a web server write of the same file have both
\* completed, in whatever interleaving, the file holds exactly the text of
\* the write that completed last.
C23_LastWriterWins ==
    /\ [][web_pc' # web_pc => UNCHANGED << lines, cursor_x, cursor_y >>]_vars
    /\ []((pc = "returned" /\ web_pc = "done") =>
             file = File(IF last_writer = "web" THEN web_content
                         ELSE SavedText(lines)))

-----------------------------------------------------------------------------
\* the display rows (1-based) that the map attributes to logical line y
RowsOf(y) == { i \in 1..Len(source_line_map) : source_line_map[i] = y }

\* C24: for every document the source line map has exactly one entry per
\* display line, its entries never decrease, the display lines of one
\* logical line are contiguous, and every logical line index 0..n-1 occurs:
\* there are at least as many display lines as logical lines, and an empty
\* logical line yields exactly one display line, which is empty.
C24_SourceLineMap ==
    pc = "wrapped" =>
        /\ Len(source_line_map) = Len(display_lines)
        /\ \A i \in 1..(Len(source_line_map) - 1) :
               source_line_map[i] <= source_line_map[i + 1]
        /\ \A i, j \in 1..Len(source_line_map) :
               (i < j /\ source_line_map[i] = source_line_map[j]) =>
                   \A k \in i..j : source_line_map[k] = source_line_map[i]
        /\ { source_line_map[i] : i \in 1..Len(source_line_map) } = 0..(Len(lines) - 1)
        /\ Len(display_lines) >= Len(lines)
        /\ \A y \in 0..(Len(lines) - 1) :
               lines[y + 1] = <<>> =>
                   /\ Cardinality(RowsOf(y)) = 1
                   /\ \A i \in RowsOf(y) : display_lines[i] = <<>>

\* a document of a wrapped line followed by an empty line has been wrapped
C24_Witness ==
    /\ pc = "wrapped" /\ Len(lines) = 2 /\ lines[2] = <<>>
    /\ source_line_map = << 0, 0, 1 >>

-----------------------------------------------------------------------------
\* C25: end-of-line boundary: for every logical line L of every document
\* the cursor position (L, length of L) maps to the last display line
\* wrapped from L, at the column equal to that display line's length.
C25_EndOfLineAtLastRow ==
    (pc = "wrapped" /\ cursor_x = Len(lines[cursor_y + 1])) =>
        cursor_display_pos =
            << LastRow(cursor_y), Len(display_lines[LastRow(cursor_y) + 1]) >>

-----------------------------------------------------------------------------
\* the logical line index is one of the display lines' source lines
InMap(y) == \E i \in 1..Len(source_line_map) : source_line_map[i] = y

\* C26: defensive fallback: called with an empty display-line list, or with
\* a logical line index that is negative, out of range or absent from the
\* source line map, the mapper returns (0, 0).
C26_DefensiveFallback ==
    (/\ pc = "mapped"
     /\ \/ display_lines = <<>>
        \/ cursor_y < 0
        \/ cursor_y >= Len(source_line_map)
        \/ ~InMap(cursor_y)) =>
        cursor_display_pos = << 0, 0 >>

\* the mapper has been called on display lines whose map lacks the index
C26_Witness ==
    /\ pc = "mapped" /\ display_lines = << <<"a">>, <<"a", "a">> >>
    /\ source_line_map = << 0, 2 >> /\ cursor_y = 1
    /\ cursor_display_pos = << 0, 0 >>

-----------------------------------------------------------------------------
\* C27: Left and Right move in logical coordinates and never change the
\* text: Right advances one character, or from the end of a line moves to
\* column 0 of the next line; Left retreats one character, or from column
\* 0 moves to the end of the previous line; Left at (0, 0) and Right at
\* the end of the last line leave the cursor where it is.
C27_LeftRightLogical ==
    [][/\ Handles("KEY_RIGHT") =>
            /\ lines' = lines
            /\ << cursor_y', cursor_x' >> =
                  IF cursor_x < Len(lines[cursor_y + 1])
                  THEN << cursor_y, cursor_x + 1 >>
                  ELSE IF cursor_y < Len(lines) - 1
                  THEN << cursor_y + 1, 0 >>
                  ELSE << cursor_y, cursor_x >>
       /\ Handles("KEY_LEFT") =>
            /\ lines' = lines
            /\ << cursor_y', cursor_x' >> =
                  IF cursor_x > 0
                  THEN << cursor_y, cursor_x - 1 >>
                  ELSE IF cursor_y > 0
                  THEN << cursor_y - 1, Len(lines[cursor_y]) >>
                  ELSE << cursor_y, cursor_x >>]_vars

\* Right has taken the cursor from the end of the first line to column 0
\* of the second
C27_Witness ==
    /\ last_event = Press("KEY_RIGHT") /\ pc = "events"
    /\ Len(lines) = 2 /\ lines[2] # <<>>
    /\ cursor_y = 1 /\ cursor_x = 0

-----------------------------------------------------------------------------
\* line with the text c inserted at column x
InsertAt(line, x, c) == Prefix(line, x) \o c \o Suffix(line, x)

\* C28: a key press that resolves to a character string c (here the key A,
\* which resolves to "a", or to "A" with shift held) inserts c at column
\* cursor_x of line cursor_y, leaves every other line and the number of
\* lines unchanged, advances cursor_x by len(c), and marks the content
\* changed without setting layout_changed.
C28_CharacterInserted ==
    [][Handles("KEY_A") =>
          LET c == IF shift_pressed THEN << "A" >> ELSE << "a" >>
          IN  /\ lines' = SetLine(lines, cursor_y,
                                  InsertAt(lines[cursor_y + 1], cursor_x, c))
              /\ cursor_y' = cursor_y
              /\ cursor_x' = cursor_x + Len(c)
              /\ content_changed'
              /\ layout_changed' = layout_changed
              /\ pc' # "crashed"]_vars

-----------------------------------------------------------------------------
\* the number of display lines of the document
TotalDisplayLines == Len(_get_wrapped_lines(lines).dl)

\* C29: upper bound of the scroll offset: at editor open and after every
\* scroll adjustment scroll_offset <= max(0, total_display_lines -
\* visible_row_count), except while the cursor is on the last display line
\* (typing at the end of a growing document).
C29_ScrollUpperBound ==
    (pc = "poll" /\ CursorRow # TotalDisplayLines - 1) =>
        scroll_offset <= Max(0, TotalDisplayLines - max_lines_on_screen)

-----------------------------------------------------------------------------
\* the count of partial repaints has reached the interval
IntervalReached == partial_refresh_count >= FULL_REFRESH_INTERVAL

\* C30 as stated: ghosting is bounded: partial_refresh_count never exceeds
\* FULL_REFRESH_INTERVAL, and once the count has reached the interval the
\* very next loop iteration performs a full repaint.
C30_NextIterationRepaints ==
    /\ [](partial_refresh_count <= FULL_REFRESH_INTERVAL)
    /\ (pc = "poll" /\ IntervalReached) ~> (commit = "full")

\* C30: ghosting is bounded: partial_refresh_count never exceeds
\* FULL_REFRESH_INTERVAL, and once the count has reached the interval the
\* next rendering step performs a full repaint of the whole screen and
\* resets the count, even if no dirty flag is set; the loop comes to that
\* rendering step unless the iteration leaves the loop before it (ESC
\* saves and returns, an exception ends the loop).
C30_GhostingBounded ==
    /\ [](partial_refresh_count <= FULL_REFRESH_INTERVAL)
    /\ [][(pc = "render" /\ IntervalReached) =>
             /\ commit' = "full" /\ drawn' = WholeScreen
             /\ partial_refresh_count' = 0]_vars
    /\ (pc = "poll" /\ IntervalReached) ~> \/ commit = "full"
                                           \/ pc \in {"returned", "crashed"}

\* the loop is at its rendering step with the count at the interval and no
\* dirty flag set
C30_Witness ==
    /\ pc = "render" /\ partial_refresh_count = FULL_REFRESH_INTERVAL
    /\ ~layout_changed /\ ~content_changed /\ ~timers_changed

-----------------------------------------------------------------------------
\* C31: dirty flags are consumed by the repaint of the iteration that set
\* them: whenever the loop is about to poll for input, layout_changed,
\* content_changed and timers_changed are all false, and a step clears a
\* flag only by issuing a repaint for it: a full repaint for
\* layout_changed, a repaint that draws the text area for content_changed,
\* a repaint that draws the header and footer for timers_changed.
C31_FlagsConsumedByRepaint ==
    /\ [](pc = "poll" => ~layout_changed /\ ~content_changed /\ ~timers_changed)
    /\ [][/\ (layout_changed /\ ~layout_changed') =>
               commit' = "full" /\ drawn' = WholeScreen
          /\ (content_changed /\ ~content_changed') =>
               commit' # "none" /\ TextArea \in drawn'
          /\ (timers_changed /\ ~timers_changed') =>
               commit' # "none" /\ HeaderFooter \in drawn']_vars

\* a partial repaint has consumed a content change and a timer change
C31_Witness ==
    /\ pc = "poll" /\ commit = "partial" /\ drawn = WholeScreen
    /\ ~layout_changed /\ ~content_changed /\ ~timers_changed
    /\ last_hotkey # "none"

-----------------------------------------------------------------------------
\* C32 as stated: every write of the document by the editor (exit save,
\* inactivity save, interval autosave) activates the save indicator:
\* immediately after the write save_indicator_active is true and its timer
\* equals the time of the write.
C32_EveryWriteActivates ==
    [][write' \in {"exit", "inactivity", "autosave"} =>
          save_indicator_active' /\ save_indicator_timer' = now']_vars

\* C32: the exit save and the inactivity save of the editor of
\* ada_writer.py and the interval autosave of the editor of
\* ada_writer_v1.4.3.py activate the save indicator, with the time of the
\* write as its timer; the exit save of the editor of ada_writer_v1.4.3.py
\* leaves the indicator as it was.
C32_SavesActivateIndicator ==
    /\ [][(write' \in {"inactivity", "autosave"}
              \/ (write' = "exit" /\ pc \notin V143Pcs)) =>
             save_indicator_active' /\ save_indicator_timer' = now']_vars
    /\ [][(write' = "exit" /\ pc \in V143Pcs) =>
             UNCHANGED << save_indicator_active, save_indicator_timer >>]_vars

\* the interval autosave has just written the document, later than the
\* start of the session
C32_Witness ==
    /\ write = "autosave" /\ now > 0
    /\ save_indicator_active /\ save_indicator_timer = now

-----------------------------------------------------------------------------
\* the text is empty or consists solely of spaces
OnlySpaces(line) == \A i \in 1..Len(line) : line[i] = " "

\* C33: an over-wide word is kept whole and adds no blank line: every word
\* wider than max_width is a display line of its logical line, a logical
\* line that consists of one such word yields exactly one display line,
\* holding that word, and a display line is empty only if its logical line
\* is empty or consists solely of spaces.
C33_OverWideWordKeptWhole ==
    pc = "wrapped" =>
        /\ \A y \in 0..(Len(lines) - 1) :
              LET words == split(lines[y + 1], <<>>)
              IN  /\ \A k \in 1..Len(words) :
                        getbbox2(words[k]) > max_width =>
                            \E r \in RowsOf(y) : display_lines[r] = words[k]
                  /\ (Len(words) = 1 /\ getbbox2(words[1]) > max_width) =>
                        /\ Cardinality(RowsOf(y)) = 1
                        /\ \A r \in RowsOf(y) : display_lines[r] = lines[y + 1]
        /\ \A r \in 1..Len(display_lines) :
              display_lines[r] = <<>> => OnlySpaces(lines[source_line_map[r] + 1])

-----------------------------------------------------------------------------
\* C34: for every document and every valid logical cursor, the coordinate
\* mapper returns a display position (row, col) inside the wrapped text of
\* the cursor's own line: 0 <= row < number of display lines,
\* source_line_map[row] = cursor_y and 0 <= col <= len(display_lines[row]).
C34_CursorInsideOwnLine ==
    pc = "wrapped" =>
        /\ cursor_display_pos[1] \in 0..(Len(display_lines) - 1)
        /\ source_line_map[cursor_display_pos[1] + 1] = cursor_y
        /\ cursor_display_pos[2] \in 0..Len(display_lines[cursor_display_pos[1] + 1])

\* the cursor sits in the second logical line, on a display row after the
\* first one of that line
C34_Witness ==
    /\ pc = "wrapped"
    /\ cursor_y = 1
    /\ cursor_display_pos[1] > FirstIndex(source_line_map, 1)
    /\ source_line_map[cursor_display_pos[1] + 1] = 1
    /\ cursor_display_pos[2] > 0

-----------------------------------------------------------------------------
\* C35: the cursor is always inside the drawn viewport: at the initial draw
\* and at every repaint, scroll_offset <= cursor display row <
\* scroll_offset + max_lines_on_screen, and that row is one of the display
\* lines, so the renderer draws the display line that carries the cursor.
C35_CursorInViewport ==
    commit # "none" =>
        /\ scroll_offset <= CursorRow
        /\ CursorRow < scroll_offset + max_lines_on_screen
        /\ CursorRow < TotalDisplayLines

\* a repaint after the view was scrolled down to keep the cursor on its
\* last row
C35_Witness ==
    /\ commit = "partial" /\ pc = "poll"
    /\ scroll_offset > 0
    /\ CursorRow = scroll_offset + max_lines_on_screen - 1
    /\ max_lines_on_screen > 1

-----------------------------------------------------------------------------
\* C36: save/load round trip: when the editor opens, as a document that is
\* no journal, the file that holds what its save has written for a
\* document (the lines joined by newline plus a trailing newline), it
\* loads exactly the same sequence of lines, including empty first, last
\* and consecutive lines and the single-empty-line document.
C36_SaveLoadRoundTrip ==
    [][(pc = "init" /\ ~is_journal /\ file = File(SavedText(lines))) =>
          (pc' = "poll" /\ lines' = lines)]_vars

\* a document of two empty lines has been saved and loaded again
C36_Witness ==
    /\ pc = "poll" /\ commit = "full" /\ batch_n = 0
    /\ lines = << <<>>, <<>> >>
    /\ file = File(<< "\n", "\n" >>)
    /\ save_indicator_active

-----------------------------------------------------------------------------
\* the loop is running with the cursor hidden, no indicator active, no
\* unsaved change, no dirty flag and partial_refresh_count below the
\* interval, and the step that led here has neither repainted nor written
Quiescent ==
    /\ pc \in {"poll", "events", "timers", "render"}
    /\ ~cursor_visible
    /\ ~word_count_active /\ ~time_display_active /\ ~save_indicator_active
    /\ ~content_changed_since_last_save
    /\ ~layout_changed /\ ~content_changed /\ ~timers_changed
    /\ partial_refresh_count < FULL_REFRESH_INTERVAL
    /\ commit = "none" /\ write = "none"

\* the handling of a key event has ended the loop
EndedByKey == pc \in {"returned", "crashed"} /\ last_event.type = "EV_KEY"

\* C37: quiescence: if from some point on no key event arrives, the editor
\* loop (unless the handling of a key event has ended it) eventually
\* reaches a state with the cursor hidden, all indicators inactive, no
\* unsaved changes, all dirty flags false and partial_refresh_count below
\* the interval, and from there it issues no further repaint and no
\* further file write however long it keeps polling.
C37_Quiescence ==
    /\ <>[](Quiescent \/ EndedByKey)
    /\ [][(Quiescent /\ last_event'.type # "EV_KEY") => Quiescent']_vars

-----------------------------------------------------------------------------
\* C38: shutdown liveness: once a shutdown is requested, because no key
\* press occurred for more than INACTIVITY_TIMEOUT_SECONDS or because a
\* termination signal set SHUTDOWN_REQUESTED, the application eventually
\* calls initiate_shutdown, whichever screen is active (unless a key press
\* in the editor or in a text input ends the inactivity first).
C38_ShutdownLiveness ==
    (shell.SHUTDOWN_REQUESTED \/ shell.idle) ~>
        \/ shell.pc = "shutdown"
        \/ ~shell.SHUTDOWN_REQUESTED /\ ~shell.idle

\* C39: panel mode consistency: while the panel is awake the recorded
\* _current_mode is the mode of the last initialisation sent to the panel
\* (init: full, init_fast: fast), every partial transfer was issued after
\* init_fast, every full transfer after the full init, and no buffer was
\* transferred to a sleeping or uninitialised panel.
C39_PanelModeConsistent ==
    /\ ~panel._is_sleeping => panel._current_mode = panel.epd_mode
    /\ \A t \in panel.transfers :
          /\ t[1] = "partial" => t[2] = "fast"
          /\ t[1] = "full" => t[2] = "full"
          /\ t[2] \notin { "sleep", "none" }

-----------------------------------------------------------------------------
\* the path lies in the directory of BASE_DIR with this name
Inside(path, directory) ==
    Len(path) > 2 /\ path[1] = <<"d">> /\ path[2] = directory

\* C40: path confinement in the web server: every route that takes a
\* filename reads, writes, moves or removes only files inside its intended
\* directory (projects, archive or trash), and a filename that resolves
\* outside the route's base directory, also into a sibling directory whose
\* name starts with the name of the base directory, is rejected with 403
\* and changes nothing.
C40_PathConfinement ==
    [][http'.route # "none" =>
          /\ \A t \in http'.touched : Inside(t[1], t[2])
          /\ ~Inside(abspath(http'.base, http'.filename), http'.base) =>
                http'.status = "403" /\ http'.touched = {} /\ fs' = fs]_vars

====
